---- MODULE Spec2Model ----
(***************************************************************************)
(* Model of the external-API gateway layer of the cookies-house backend:   *)
(*   - the identity-provider credential cache (services/wechat.ts),        *)
(*   - the model-completion gateway tasks and their structured-output      *)
(*     extraction (routes/sync.ts, the AI gateway part).                   *)
(* Texts are sequences of lexical units (strings of the alphabet below);   *)
(* times are milliseconds, as Date.now() gives them.                       *)
(***************************************************************************)
EXTENDS Integers, Sequences, FiniteSets, TLC

VARIABLES
    cachedAccessToken,  \* wechat.ts: <<>> for null, else <<[token, expireAt]>>
    now,                \* Date.now()
    ticks,              \* how many times the clock has advanced
    config,             \* config.wechat: [appId, secret]
    tpc,                \* per caller: position inside getAccessToken
    tret,               \* per caller: what getAccessToken returned, and when
    tokenRequests,      \* requests sent to TOKEN_URL so far
    gpc,                \* gateway request: "idle" | "awaiting" | "done"
    gtask,              \* gateway request: the task being served
    greq,               \* gateway request: the request body
    gcalls,             \* gateway request: completion requests sent for it
    graw,               \* gateway request: the text callDeepSeek returned
    gres,               \* gateway request: the HTTP response sent
    gsent,              \* gateway request: the completion requests sent, in order
    gout,               \* gateway request: <<>> or <<what axios.post settled with>>
    glocal,             \* gateway request: a local the handler keeps across its await
    users,              \* db: the users table, a row per id
    cookies,            \* db: the emotion_cookies table, rows in insertion order
    jwtSecret,          \* config.jwt.secret, "" when JWT_SECRET is not set
    apc,                \* api request: "idle" | "session" | "token" | "phone" | "done"
    aroute,             \* api request: the route being served
    areq,               \* api request: its bearer token and body
    ares,               \* api request: the HTTP response sent
    aout,               \* api request: what the upstream calls settled with, in order
    aops                \* api request: the statements run on emotion_cookies

tokenVars == <<cachedAccessToken, now, ticks, config, tpc, tret, tokenRequests>>
gatewayVars == <<gpc, gtask, greq, gcalls, graw, gres, gsent, gout, glocal>>
apiVars == <<users, cookies, jwtSecret, apc, aroute, areq, ares, aout, aops>>
vars == <<cachedAccessToken, now, ticks, config, tpc, tret, tokenRequests,
          gpc, gtask, greq, gcalls, graw, gres, gsent, gout, glocal,
          users, cookies, jwtSecret, apc, aroute, areq, ares, aout, aops>>

(***************************************************************************)
(* Bounds of the model.                                                    *)
(***************************************************************************)
NCallers == 2
MaxTicks == 2
MaxLen == 4
MaxEntries == 3
MaxFolders == 2
MaxTokenRequests == 2

Callers == 1..NCallers

(***************************************************************************)
(* Texts and JSON.  A text is a sequence of lexical units; JSON values are *)
(* tagged records [t, v].  JsonParse and JsonStringify follow JSON.parse   *)
(* and JSON.stringify on this alphabet.                                    *)
(***************************************************************************)
QUOTE == "\""
BSLASH == "\\"
SP == " "
LF == "\n"
CR == "\r"
FWCOLON == "fwcolon"        \* the full-width colon
Colons == {":", FWCOLON}
\* Two-character words of the section headers, one unit each.
WANZHENG == "wanzheng"
RIJI == "riji"
GUANJIAN == "guanjian"
YAODIAN == "yaodian"
DONGCHA == "dongcha"
YU == "yu"
JIANYI == "jianyi"

WhiteSpace == {SP, LF, CR}
DigitUnits == <<"0", "1", "2", "3", "4", "5", "6", "7", "8", "9">>
Digits == {DigitUnits[i] : i \in 1..10}
DigitValue(u) == CHOOSE d \in 0..9 : DigitUnits[d + 1] = u
\* An exponent too large for a double: the literal 1e999 is the units "1", "e999".
HUGEEXP == "e999"

JStr(s) == [t |-> "str", v |-> s]
JNum(n) == [t |-> "num", v |-> n]
JInf == [t |-> "inf", v |-> 0]
JBool(b) == [t |-> "bool", v |-> b]
JNull == [t |-> "null", v |-> 0]
JUndef == [t |-> "undef", v |-> 0]
JObj(pairs) == [t |-> "obj", v |-> pairs]
JArr(items) == [t |-> "arr", v |-> items]

\* JavaScript's ToBoolean.
Truthy(x) ==
    CASE x.t = "str" -> x.v # <<>>
      [] x.t = "num" -> x.v # 0
      [] x.t = "inf" -> TRUE
      [] x.t = "bool" -> x.v
      [] x.t \in {"obj", "arr"} -> TRUE
      [] OTHER -> FALSE

\* obj.key: the property's value, undefined when the object has no such property.
Get(obj, key) ==
    IF obj.t = "obj" /\ \E i \in 1..Len(obj.v) : obj.v[i].k = key
    THEN obj.v[CHOOSE i \in 1..Len(obj.v) : obj.v[i].k = key].v
    ELSE JUndef

Has(obj, key) == obj.t = "obj" /\ \E i \in 1..Len(obj.v) : obj.v[i].k = key

\* Defining a property while parsing: a repeated key keeps its place, takes the new value.
Put(pairs, key, val) ==
    IF \E i \in 1..Len(pairs) : pairs[i].k = key
    THEN [i \in 1..Len(pairs) |-> IF pairs[i].k = key THEN [k |-> key, v |-> val] ELSE pairs[i]]
    ELSE Append(pairs, [k |-> key, v |-> val])

ParseFail == [ok |-> FALSE, val |-> JNull, pos |-> 0]
ParseOk(val, pos) == [ok |-> TRUE, val |-> val, pos |-> pos]

RECURSIVE SkipWs(_, _)
SkipWs(s, i) == IF i <= Len(s) /\ s[i] \in WhiteSpace THEN SkipWs(s, i + 1) ELSE i

\* The characters of a string literal after its opening quote.
RECURSIVE ParseStringBody(_, _, _)
ParseStringBody(s, j, acc) ==
    IF j > Len(s) THEN ParseFail
    ELSE IF s[j] = QUOTE THEN ParseOk(JStr(acc), j + 1)
    ELSE IF s[j] = BSLASH
         THEN IF j + 1 > Len(s) THEN ParseFail
              ELSE IF s[j + 1] \in {QUOTE, BSLASH}
                   THEN ParseStringBody(s, j + 2, Append(acc, s[j + 1]))
              ELSE IF s[j + 1] = "n"
                   THEN ParseStringBody(s, j + 2, Append(acc, LF))
              ELSE IF s[j + 1] = "r"
                   THEN ParseStringBody(s, j + 2, Append(acc, CR))
              ELSE ParseFail
    ELSE IF s[j] \in {LF, CR} THEN ParseFail
    ELSE ParseStringBody(s, j + 1, Append(acc, s[j]))

RECURSIVE DigitsEnd(_, _)
DigitsEnd(s, j) == IF j <= Len(s) /\ s[j] \in Digits THEN DigitsEnd(s, j + 1) ELSE j

RECURSIVE DecimalValue(_, _, _)
DecimalValue(s, i, j) ==
    IF j <= i THEN 0 ELSE DecimalValue(s, i, j - 1) * 10 + DigitValue(s[j - 1])

\* A number: digits without a leading zero, then an optional exponent.
ParseNumber(s, i) ==
    LET j == DigitsEnd(s, i)
        n == DecimalValue(s, i, j)
    IN IF j - i > 1 /\ s[i] = "0" THEN ParseFail
       ELSE IF j <= Len(s) /\ s[j] = HUGEEXP
            THEN ParseOk(IF n = 0 THEN JNum(0) ELSE JInf, j + 1)
            ELSE ParseOk(JNum(n), j)

RECURSIVE ParseValue(_, _)
RECURSIVE ParseMembers(_, _, _)
RECURSIVE ParseElements(_, _, _)

ParseValue(s, i) ==
    LET j == SkipWs(s, i) IN
    IF j > Len(s) THEN ParseFail
    ELSE CASE s[j] = "{" ->
                LET k == SkipWs(s, j + 1) IN
                IF k <= Len(s) /\ s[k] = "}" THEN ParseOk(JObj(<<>>), k + 1)
                ELSE ParseMembers(s, k, <<>>)
           [] s[j] = "[" ->
                LET k == SkipWs(s, j + 1) IN
                IF k <= Len(s) /\ s[k] = "]" THEN ParseOk(JArr(<<>>), k + 1)
                ELSE ParseElements(s, k, <<>>)
           [] s[j] = QUOTE -> ParseStringBody(s, j + 1, <<>>)
           [] s[j] \in Digits -> ParseNumber(s, j)
           [] s[j] = "true" -> ParseOk(JBool(TRUE), j + 1)
           [] s[j] = "false" -> ParseOk(JBool(FALSE), j + 1)
           [] s[j] = "null" -> ParseOk(JNull, j + 1)
           [] OTHER -> ParseFail

ParseMembers(s, i, pairs) ==
    LET j == SkipWs(s, i) IN
    IF j > Len(s) \/ s[j] # QUOTE THEN ParseFail
    ELSE LET key == ParseStringBody(s, j + 1, <<>>) IN
         IF ~key.ok THEN ParseFail
         ELSE LET c == SkipWs(s, key.pos) IN
              IF c > Len(s) \/ s[c] # ":" THEN ParseFail
              ELSE LET val == ParseValue(s, c + 1) IN
                   IF ~val.ok THEN ParseFail
                   ELSE LET e == SkipWs(s, val.pos)
                            more == Put(pairs, key.val.v, val.val)
                        IN IF e > Len(s) THEN ParseFail
                           ELSE IF s[e] = "," THEN ParseMembers(s, e + 1, more)
                           ELSE IF s[e] = "}" THEN ParseOk(JObj(more), e + 1)
                           ELSE ParseFail

ParseElements(s, i, items) ==
    LET val == ParseValue(s, i) IN
    IF ~val.ok THEN ParseFail
    ELSE LET e == SkipWs(s, val.pos)
             more == Append(items, val.val)
         IN IF e > Len(s) THEN ParseFail
            ELSE IF s[e] = "," THEN ParseElements(s, e + 1, more)
            ELSE IF s[e] = "]" THEN ParseOk(JArr(more), e + 1)
            ELSE ParseFail

\* JSON.parse(text): ok = FALSE stands for the SyntaxError it throws.
JsonParse(s) ==
    LET r == ParseValue(s, 1) IN
    IF r.ok /\ SkipWs(s, r.pos) > Len(s) THEN r ELSE ParseFail

RECURSIVE EscapeString(_)
EscapeString(s) ==
    IF s = <<>> THEN <<>>
    ELSE (CASE Head(s) = QUOTE -> <<BSLASH, QUOTE>>
            [] Head(s) = BSLASH -> <<BSLASH, BSLASH>>
            [] Head(s) = LF -> <<BSLASH, "n">>
            [] Head(s) = CR -> <<BSLASH, "r">>
            [] OTHER -> <<Head(s)>>) \o EscapeString(Tail(s))

RECURSIVE DecimalUnits(_)
DecimalUnits(n) ==
    IF n < 10 THEN <<DigitUnits[n + 1]>>
    ELSE Append(DecimalUnits(n \div 10), DigitUnits[(n % 10) + 1])

RECURSIVE JsonStringify(_)
RECURSIVE StringifyMembers(_, _)
RECURSIVE StringifyElements(_, _)

\* JSON.stringify(value), without indentation.
JsonStringify(x) ==
    CASE x.t = "str" -> <<QUOTE>> \o EscapeString(x.v) \o <<QUOTE>>
      [] x.t = "num" -> DecimalUnits(x.v)
      [] x.t = "inf" -> <<"null">>
      [] x.t = "bool" -> IF x.v THEN <<"true">> ELSE <<"false">>
      [] x.t = "obj" -> <<"{">> \o StringifyMembers(x.v, 1) \o <<"}">>
      [] x.t = "arr" -> <<"[">> \o StringifyElements(x.v, 1) \o <<"]">>
      [] OTHER -> <<"null">>

StringifyMembers(pairs, i) ==
    IF i > Len(pairs) THEN <<>>
    ELSE (IF i > 1 THEN <<",">> ELSE <<>>)
         \o <<QUOTE>> \o EscapeString(pairs[i].k) \o <<QUOTE, ":">>
         \o JsonStringify(pairs[i].v)
         \o StringifyMembers(pairs, i + 1)

StringifyElements(items, i) ==
    IF i > Len(items) THEN <<>>
    ELSE (IF i > 1 THEN <<",">> ELSE <<>>)
         \o JsonStringify(items[i])
         \o StringifyElements(items, i + 1)

\* String.prototype.trim
RECURSIVE TrimEnd(_)
TrimEnd(s) == IF s # <<>> /\ s[Len(s)] \in WhiteSpace THEN TrimEnd(SubSeq(s, 1, Len(s) - 1)) ELSE s
Trim(s) == TrimEnd(SubSeq(s, SkipWs(s, 1), Len(s)))

(***************************************************************************)
(* Structured-output extraction: routes/sync.ts                            *)
(***************************************************************************)
FirstIndex(s, u) ==
    IF \E i \in 1..Len(s) : s[i] = u
    THEN CHOOSE i \in 1..Len(s) : s[i] = u /\ \A j \in 1..(i - 1) : s[j] # u
    ELSE 0

LastIndex(s, u) ==
    IF \E i \in 1..Len(s) : s[i] = u
    THEN CHOOSE i \in 1..Len(s) : s[i] = u /\ \A j \in (i + 1)..Len(s) : s[j] # u
    ELSE 0

\* raw.match(/\{[\s\S]*\}/): the span from the first "{" to the last "}" after it.
HasJsonSpan(raw) ==
    FirstIndex(raw, "{") > 0 /\ LastIndex(raw, "}") > FirstIndex(raw, "{")
JsonSpan(raw) == SubSeq(raw, FirstIndex(raw, "{"), LastIndex(raw, "}"))

StartsAt(s, i, w) == i + Len(w) - 1 <= Len(s) /\ SubSeq(s, i, i + Len(w) - 1) = w
EndsBefore(s, c, w) == c - Len(w) >= 1 /\ SubSeq(s, c - Len(w), c - 1) = w

\* The alternatives of the three section-header patterns and of their lookaheads.
DiaryHeads == {<<WANZHENG, RIJI>>, <<RIJI>>}
PointsHeads == {<<GUANJIAN, YAODIAN>>, <<YAODIAN>>}
InsightsHeads == {<<DONGCHA>>, <<JIANYI>>, <<DONGCHA, YU, JIANYI>>}
DiaryStops == {<<GUANJIAN, YAODIAN>>, <<YAODIAN>>}
PointsStops == {<<DONGCHA>>, <<JIANYI>>}

\* Where "(?:head|...)[:]" first matches: the index of its colon, 0 without a match.
HeaderColon(s, heads) ==
    LET hit(c) == s[c] \in Colons /\ \E w \in heads : EndsBefore(s, c, w) IN
    IF \E c \in 1..Len(s) : hit(c)
    THEN CHOOSE c \in 1..Len(s) : hit(c) /\ \A d \in 1..(c - 1) : ~hit(d)
    ELSE 0

\* "\s*([\s\S]*?)(?=stop|...|$)" from the colon on: the captured group.
LazyCapture(s, colon, stops) ==
    LET from == SkipWs(s, colon + 1)
        stop(q) == q = Len(s) + 1 \/ \E w \in stops : StartsAt(s, q, w)
        to == CHOOSE q \in from..(Len(s) + 1) : stop(q) /\ \A r \in from..(q - 1) : ~stop(r)
    IN SubSeq(s, from, to - 1)

\* "\s*([\s\S]*)" from the colon on: the captured group.
GreedyCapture(s, colon) == SubSeq(s, SkipWs(s, colon + 1), Len(s))

KeyDiary == <<"diary">>
KeyKeyPoints == <<"keyPoints">>
KeyInsights == <<"insights">>

DiaryRecord(d, k, i) ==
    JObj(<<[k |-> KeyDiary, v |-> d], [k |-> KeyKeyPoints, v |-> k], [k |-> KeyInsights, v |-> i]>>)

\* let parsed = { diary: raw, keyPoints: '', insights: '' }
DiaryDefaultsAllRaw(raw) == DiaryRecord(JStr(raw), JStr(raw), JStr(raw))
DiaryDefaults(raw) == DiaryRecord(JStr(raw), JStr(<<>>), JStr(<<>>))

\* if (obj.f) parsed.f = obj.f, for the three fields
CopyFieldsShifted(parsed, obj) ==
    LET pick(to, from) == IF Truthy(Get(obj, from)) THEN Get(obj, from) ELSE Get(parsed, to)
    IN DiaryRecord(pick(KeyDiary, KeyDiary), pick(KeyKeyPoints, KeyInsights),
                   pick(KeyInsights, KeyKeyPoints))
CopyFields(parsed, obj) ==
    LET pick(f) == IF Truthy(Get(obj, f)) THEN Get(obj, f) ELSE Get(parsed, f)
    IN DiaryRecord(pick(KeyDiary), pick(KeyKeyPoints), pick(KeyInsights))

\* The catch branch: the three section-header scans, each assigned when it matches.
SplitSections(parsed, raw) ==
    LET dc == HeaderColon(raw, DiaryHeads)
        pc == HeaderColon(raw, PointsHeads)
        ic == HeaderColon(raw, InsightsHeads)
    IN DiaryRecord(
         IF dc > 0 THEN JStr(Trim(LazyCapture(raw, dc, DiaryStops))) ELSE Get(parsed, KeyDiary),
         IF pc > 0 THEN JStr(Trim(LazyCapture(raw, pc, PointsStops))) ELSE Get(parsed, KeyKeyPoints),
         IF ic > 0 THEN JStr(Trim(GreedyCapture(raw, ic))) ELSE Get(parsed, KeyInsights))

\* parsed after the JSON attempt and its fallback
DiaryParsed(raw) ==
    IF ~HasJsonSpan(raw) THEN DiaryDefaults(raw)
    ELSE LET r == JsonParse(JsonSpan(raw)) IN
         IF r.ok THEN CopyFields(DiaryDefaults(raw), r.val)
         ELSE SplitSections(DiaryDefaults(raw), raw)

\* data: { diary: parsed.diary || raw, keyPoints: parsed.keyPoints || '', insights: parsed.insights || '' }
DiaryDataRawFallback(parsed, raw) ==
    LET or(x, dflt) == IF Truthy(x) THEN x ELSE dflt
    IN DiaryRecord(or(Get(parsed, KeyDiary), JStr(raw)),
                   or(Get(parsed, KeyKeyPoints), JStr(raw)),
                   or(Get(parsed, KeyInsights), JStr(raw)))
DiaryData(parsed, raw) ==
    LET or(x, dflt) == IF Truthy(x) THEN x ELSE dflt
    IN DiaryRecord(or(Get(parsed, KeyDiary), JStr(raw)),
                   or(Get(parsed, KeyKeyPoints), JStr(<<>>)),
                   or(Get(parsed, KeyInsights), JStr(<<>>)))

DiaryExtract(raw) == DiaryData(DiaryParsed(raw), raw)

KeySummary == <<"summary">>
KeyInsight == <<"psychologicalInsight">>
KeyAdvice == <<"lifeAdvice">>
KeyMetrics == <<"metrics">>
SliceLen == 200

\* raw.slice(0, 200)
Slice(s, n) == SubSeq(s, 1, IF Len(s) < n THEN Len(s) ELSE n)

\* The record built when no JSON object could be parsed.
LongTermFallback(raw) ==
    JObj(<<[k |-> KeySummary,
            v |-> JObj(<<[k |-> <<"timeRange">>, v |-> JStr(<<"jinqi">>)],
                         [k |-> <<"keyPoints">>, v |-> JArr(<<JStr(Slice(raw, SliceLen))>>)]>>)],
           [k |-> KeyInsight,
            v |-> JObj(<<[k |-> <<"letter">>, v |-> JStr(raw)],
                         [k |-> <<"themes">>, v |-> JArr(<<>>)]>>)],
           [k |-> KeyAdvice,
            v |-> JObj(<<[k |-> <<"adviceBlocks">>, v |-> JArr(<<>>)]>>)],
           [k |-> KeyMetrics, v |-> JObj(<<>>)]>>)

\* parsed = JSON.parse(span) when that succeeds; if (!parsed) the fallback record
LongTermExtract(raw) ==
    LET r == IF HasJsonSpan(raw) THEN JsonParse(JsonSpan(raw)) ELSE ParseFail
    IN IF r.ok /\ Truthy(r.val) THEN r.val ELSE LongTermFallback(raw)

(***************************************************************************)
(* Completion client and gateway handlers: routes/sync.ts                  *)
(***************************************************************************)
MsgNoApiKey == "missing apiKey"
MsgNoEntries == "nothing to analyse"
MsgNoLongTermData == "no long-term data"
MsgEmptyContent == "DeepSeek returned empty content"
MsgTimeout == "timeout of ms exceeded"
MsgNetwork == "Network Error"
MsgHttpStatus == "Request failed with status code"
MsgProvider == "provider error message"

NoResponse == [status |-> 0, code |-> 0, message |-> "", data |-> JUndef]
Failure(status, msg) == [status |-> status, code |-> status, message |-> msg, data |-> JUndef]
Success(data) == [status |-> 200, code |-> 0, message |-> "", data |-> data]

\* What axios.post does with one completion request: it resolves with a body whose
\* first choice may carry content, or rejects (timeout, network, non-2xx status with
\* or without the provider's error message in the body).
Completions(contents) ==
    {[kind |-> "ok", content |-> <<c>>, providerMsg |-> ""] : c \in contents}
    \cup {[kind |-> "ok", content |-> <<>>, providerMsg |-> ""]}
    \cup {[kind |-> k, content |-> <<>>, providerMsg |-> ""] : k \in {"timeout", "network", "http"}}
    \cup {[kind |-> "http", content |-> <<>>, providerMsg |-> MsgProvider]}

\* callDeepSeek without the trim and with any present content accepted.
CallDeepSeekUntrimmed(outcome) ==
    IF outcome.kind = "ok"
    THEN IF outcome.content = <<>>
         THEN [ok |-> FALSE, text |-> <<>>, message |-> MsgEmptyContent, providerMsg |-> ""]
         ELSE [ok |-> TRUE, text |-> outcome.content[1], message |-> "", providerMsg |-> ""]
    ELSE [ok |-> FALSE, text |-> <<>>,
          message |-> CASE outcome.kind = "timeout" -> MsgTimeout
                        [] outcome.kind = "network" -> MsgNetwork
                        [] OTHER -> MsgHttpStatus,
          providerMsg |-> outcome.providerMsg]

\* callDeepSeek: the trimmed content of the first choice, or an exception.
\* error.message is the exception's own message, error.response.data.error.message
\* the provider's.
CallDeepSeek(outcome) ==
    IF outcome.kind = "ok"
    THEN LET content == IF outcome.content = <<>> THEN <<>> ELSE Trim(outcome.content[1])
         IN IF content = <<>>
            THEN [ok |-> FALSE, text |-> <<>>, message |-> MsgEmptyContent, providerMsg |-> ""]
            ELSE [ok |-> TRUE, text |-> content, message |-> "", providerMsg |-> ""]
    ELSE [ok |-> FALSE, text |-> <<>>,
          message |-> CASE outcome.kind = "timeout" -> MsgTimeout
                        [] outcome.kind = "network" -> MsgNetwork
                        [] OTHER -> MsgHttpStatus,
          providerMsg |-> outcome.providerMsg]

\* The catch block with error.message tried before the provider's message.
ErrorMessageOwnFirst(err, generic) ==
    IF err.message # "" THEN err.message
    ELSE IF err.providerMsg # "" THEN err.providerMsg
    ELSE generic

\* error?.response?.data?.error?.message || error?.message || generic
ErrorMessage(err, generic) ==
    IF err.providerMsg # "" THEN err.providerMsg
    ELSE IF err.message # "" THEN err.message
    ELSE generic

\* The text each task's catch block falls back on.
GenericMessage(task) ==
    CASE task = "daily" -> "AI analysis failed"
      [] task = "diary" -> "AI diary failed"
      [] task = "counselor-diary" -> "AI counselor diary failed"
      [] task = "long-term" -> "AI long-term failed"
      [] task = "goals" -> "goal split failed"
      [] OTHER -> "fortune failed"

\* !apiKey || typeof apiKey !== 'string'
ApiKeyMissing(apiKey) == ~Truthy(apiKey) \/ apiKey.t # "str"
\* !Array.isArray(entries) || entries.length === 0
EntriesMissing(entries) == entries.t # "arr" \/ Len(entries.v) = 0
\* Object.keys(x).length > 0
HasKeys(x) == x.t \in {"obj", "arr", "str"} /\ Len(x.v) > 0
\* hasAnyData of the long-term handler
HasAnyData(body) ==
    \/ (body.folders.t = "arr" /\ Len(body.folders.v) > 0)
    \/ (Truthy(body.enrichment) /\ HasKeys(body.enrichment))
    \/ (Truthy(body.skillTree) /\ HasKeys(body.skillTree))

MsgNoTitle == "missing goal title"
\* The message of the TypeError a property read on null or a call of a non-function throws.
MsgTypeError == "TypeError"

\* callDeepSeek's timeoutMs: its default, and what two tasks pass instead.
DefaultTimeoutMs == 30000
CounselorTimeoutMs == 60000
LongTermTimeoutMs == 45000

KeyText == <<"text">>
KeyType == <<"type">>
KeyTimestamp == <<"timestamp">>
KeyIndex == <<"index">>
KeyTime == <<"time">>
KeyDate == <<"date">>
KeyEntries == <<"entries">>
KeyRange == <<"range">>
KeyFolders == <<"folders">>
KeyEnrichment == <<"enrichment">>
KeySkillTree == <<"skillTree">>
KeyAnalysis == <<"analysis">>
KeyContent == <<"content">>
KeyCategory == <<"category">>
KeySteps == <<"steps">>
DefaultEntryType == "suisuinian"

\* x || d
OrElse(x, d) == IF Truthy(x) THEN x ELSE d

\* Reading a property of null throws; of any other JSON value it gives undefined.
ThrowsOnRead(e) == e.t = "null"
AnyThrowsOnRead(items) == \E i \in 1..Len(items) : ThrowsOnRead(items[i])

\* new Date(ts).toLocaleTimeString('zh-CN', {hour: '2-digit', minute: '2-digit'}),
\* in a zone without offset: the minute of the day as HH:MM.
TwoDigits(n) == <<DigitUnits[(n \div 10) + 1], DigitUnits[(n % 10) + 1]>>
TimeText(ts) ==
    LET minute == (ts \div 60000) % 1440
    IN TwoDigits(minute \div 60) \o <<":">> \o TwoDigits(minute % 60)
\* e.timestamp ? toLocaleTimeString(...) : null
TimeOf(e) ==
    LET ts == Get(e, KeyTimestamp) IN IF Truthy(ts) THEN JStr(TimeText(ts.v)) ELSE JNull

\* (e.timestamp || 0), the sort key of the diary task
TimestampOrZero(e) ==
    LET ts == Get(e, KeyTimestamp) IN IF Truthy(ts) THEN ts.v ELSE 0

\* Array.prototype.sort is stable: an element goes after every element with a
\* smaller key and after the earlier elements with the same key.
SortRankTiesReversed(keys, i) ==
    Cardinality({j \in 1..Len(keys) : keys[j] < keys[i] \/ (keys[j] = keys[i] /\ j > i)}) + 1
SortRank(keys, i) ==
    Cardinality({j \in 1..Len(keys) : keys[j] < keys[i] \/ (keys[j] = keys[i] /\ j < i)}) + 1
SortByKeys(items, keys) ==
    [p \in 1..Len(items) |-> items[CHOOSE i \in 1..Len(items) : SortRank(keys, i) = p]]

\* daily: entries.map((e, idx) => ({index: idx + 1, text: e.text, type: e.type}))
DailyEntries(items) ==
    [p \in 1..Len(items) |->
        JObj(<<[k |-> KeyIndex, v |-> JNum(p)],
               [k |-> KeyText, v |-> Get(items[p], KeyText)],
               [k |-> KeyType, v |-> Get(items[p], KeyType)]>>)]

\* diary: entries.sort((a, b) => (a.timestamp || 0) - (b.timestamp || 0))
\*               .map((e, idx) => ({index: idx + 1, text, type, time}))
DiaryEntries(items) ==
    LET sorted == SortByKeys(items, [i \in 1..Len(items) |-> TimestampOrZero(items[i])])
    IN [p \in 1..Len(sorted) |->
           JObj(<<[k |-> KeyIndex, v |-> JNum(p)],
                  [k |-> KeyText, v |-> Get(sorted[p], KeyText)],
                  [k |-> KeyType, v |-> Get(sorted[p], KeyType)],
                  [k |-> KeyTime, v |-> TimeOf(sorted[p])]>>)]

\* customPrompt && typeof customPrompt === 'string' && customPrompt.trim().length > 0
\*   ? customPrompt.trim() + DIARY_JSON_SUFFIX : DIARY_DEFAULT_PROMPT
DiaryPrompt(customPrompt) ==
    IF Truthy(customPrompt) /\ customPrompt.t = "str" /\ Trim(customPrompt.v) # <<>>
    THEN Trim(customPrompt.v) \o <<"DIARY_JSON_SUFFIX">>
    ELSE <<"DIARY_DEFAULT_PROMPT">>

\* !Array.isArray(folders) || folders.length === 0
FoldersMissing(folders) == folders.t # "arr" \/ Len(folders.v) = 0

\* (f.entries || []).map((e) => ({... e.text ...})) throws a TypeError when the folder
\* is null, when entries is truthy and has no map method, or when an entry is null.
FolderThrows(f) ==
    \/ ThrowsOnRead(f)
    \/ LET es == Get(f, KeyEntries)
       IN Truthy(es) /\ (es.t # "arr" \/ AnyThrowsOnRead(es.v))

\* One folder's entries as the counselor task sends them.
FolderEntries(f) ==
    LET es == Get(f, KeyEntries)
    IN IF Truthy(es)
       THEN [i \in 1..Len(es.v) |->
                JObj(<<[k |-> KeyDate, v |-> Get(f, KeyDate)],
                       [k |-> KeyText, v |-> Get(es.v[i], KeyText)],
                       [k |-> KeyType, v |-> OrElse(Get(es.v[i], KeyType), JStr(<<DefaultEntryType>>))],
                       [k |-> KeyTime, v |-> TimeOf(es.v[i])]>>)]
       ELSE <<>>

\* folders.flatMap(...)
RECURSIVE AllEntries(_)
AllEntries(folders) ==
    IF folders = <<>> THEN <<>> ELSE FolderEntries(Head(folders)) \o AllEntries(Tail(folders))

\* a.date + (a.time || ''): string concatenation, undefined printing as "undefined"
DateTimeText(a) ==
    (IF Get(a, KeyDate).t = "str" THEN Get(a, KeyDate).v ELSE <<"undefined">>)
    \o (IF Truthy(Get(a, KeyTime)) THEN Get(a, KeyTime).v ELSE <<>>)

\* dA.localeCompare(dB) < 0 on the units used here: punctuation, digits, letters.
UnitOrder(u) == IF u = ":" THEN 0 ELSE IF u \in Digits THEN DigitValue(u) + 1 ELSE 11
RECURSIVE TextBefore(_, _)
TextBefore(a, b) ==
    IF b = <<>> THEN FALSE
    ELSE IF a = <<>> THEN TRUE
    ELSE IF Head(a) = Head(b) THEN TextBefore(Tail(a), Tail(b))
    ELSE UnitOrder(Head(a)) < UnitOrder(Head(b))

\* allEntries.sort((a, b) => dA.localeCompare(dB)), stable
CounselorRank(keys, i) ==
    Cardinality({j \in 1..Len(keys) :
                    TextBefore(keys[j], keys[i]) \/ (keys[j] = keys[i] /\ j < i)}) + 1
CounselorEntries(all) ==
    LET keys == [i \in 1..Len(all) |-> DateTimeText(all[i])]
    IN [p \in 1..Len(all) |-> all[CHOOSE i \in 1..Len(all) : CounselorRank(keys, i) = p]]

\* payload of the long-term task
LongTermPayload(body) ==
    JObj(<<[k |-> KeyRange, v |-> OrElse(body.range, JNull)],
           [k |-> KeyFolders, v |-> OrElse(body.folders, JArr(<<>>))],
           [k |-> KeyEnrichment, v |-> OrElse(body.enrichment, JObj(<<>>))],
           [k |-> KeySkillTree, v |-> OrElse(body.skillTree, JObj(<<>>))]>>)

\* !title || typeof title !== 'string'
TitleMissing(title) == ~Truthy(title) \/ title.t # "str"

\* stepsText.split(/\r?\n/): each separator is a line feed with the carriage return
\* before it, if there is one.
RECURSIVE SplitLines(_)
SplitLines(s) ==
    LET i == FirstIndex(s, LF)
    IN IF i = 0 THEN <<s>>
       ELSE <<SubSeq(s, 1, IF i > 1 /\ s[i - 1] = CR THEN i - 2 ELSE i - 1)>>
            \o SplitLines(SubSeq(s, i + 1, Len(s)))

\* /^[\d\.\-\)\s]+/
EnumerationUnits == Digits \cup {".", "-", ")"} \cup WhiteSpace
RECURSIVE EnumerationEnd(_, _)
EnumerationEnd(s, j) ==
    IF j <= Len(s) /\ s[j] \in EnumerationUnits THEN EnumerationEnd(s, j + 1) ELSE j
StripEnumerationDigitsOnly(line) ==
    SubSeq(line, DigitsEnd(line, 1), Len(line))
StripEnumeration(line) == SubSeq(line, EnumerationEnd(line, 1), Len(line))

\* .split(/\r?\n/).map(trim).filter(line => !!line).map(line => line.replace(...))
GoalSteps(stepsText) ==
    LET lines == SplitLines(stepsText)
        trimmed == [i \in 1..Len(lines) |-> Trim(lines[i])]
        kept == SelectSeq(trimmed, LAMBDA l : l # <<>>)
    IN [i \in 1..Len(kept) |-> StripEnumeration(kept[i])]

\* Object.keys(FORTUNE_PROMPTS)
FORTUNE_CATEGORIES ==
    <<"physical", "touch", "social", "cognitive", "sensory", "food", "selfCare">>
\* Math.floor(Math.random() * FORTUNE_CATEGORIES.length)
RandomIndexes == 0..(Len(FORTUNE_CATEGORIES) - 1)
IsFortuneCategory(category) ==
    \E i \in 1..Len(FORTUNE_CATEGORIES) : category = JStr(<<FORTUNE_CATEGORIES[i]>>)
\* category && FORTUNE_CATEGORIES.includes(category) ? category : FORTUNE_CATEGORIES[r]
FinalCategoryUnchecked(category, r) ==
    IF Truthy(category) THEN category ELSE JStr(<<FORTUNE_CATEGORIES[r + 1]>>)
FinalCategory(category, r) ==
    IF Truthy(category) /\ IsFortuneCategory(category)
    THEN category
    ELSE JStr(<<FORTUNE_CATEGORIES[r + 1]>>)

(***************************************************************************)
(* Credential cache: services/wechat.ts                                    *)
(***************************************************************************)
MarginMs == 60000
DefaultExpiresIn == 7200

\* Clock advances the model lets Date.now() make between two steps.
TickSteps == {1000, 30000, 60000}

\* config.wechat as getEnv leaves it: an unset variable is the empty string.
Configs == [appId : {"", "wx-app"}, secret : {"", "wx-secret"}]

\* Optional fields of a response body are <<>> when absent, <<v>> when present.
TokenResponses ==
    [access_token : {<<>>, <<"">>, <<"tokA">>, <<"tokB">>},
     expires_in   : {<<>>, <<0>>, <<60>>, <<61>>, <<120>>},
     errcode      : {<<>>, <<0>>, <<40013>>}]

NoReturn == [kind |-> "none", token |-> "", expireAt |-> 0, at |-> 0]

\* cachedAccessToken && cachedAccessToken.expireAt > Date.now() + 60_000
IsFreshWrongUnit(cred, t) == cred # <<>> /\ cred[1].expireAt > t + MarginMs * 1000
IsFresh(cred, t) == cred # <<>> /\ cred[1].expireAt > t + MarginMs

\* !config.wechat.appId || !config.wechat.secret
ConfigMissing(cfg) == cfg.appId = "" \/ cfg.secret = ""

\* data.errcode || !data.access_token
TokenResponseFailedIgnoreEmpty(data) ==
    (data.errcode # <<>> /\ data.errcode[1] # 0) \/ data.access_token = <<>>
TokenResponseFailed(data) ==
    \/ (data.errcode # <<>> /\ data.errcode[1] # 0)
    \/ data.access_token = <<>>
    \/ data.access_token[1] = ""

\* Date.now() + (data.expires_in ?? 7200) * 1000
ExpireAtOf(data, t) ==
    t + (IF data.expires_in = <<>> THEN DefaultExpiresIn ELSE data.expires_in[1]) * 1000

InFlight == {c \in Callers : tpc[c] = "awaiting"}

\* getAccessToken up to its await: cache hit, configuration error, or the request.
GetAccessTokenCall(c) ==
    /\ tpc[c] = "idle"
    /\ IF IsFresh(cachedAccessToken, now)
       THEN /\ tpc' = [tpc EXCEPT ![c] = "returned"]
            /\ tret' = [tret EXCEPT ![c] = [kind |-> "cache",
                                            token |-> cachedAccessToken[1].token,
                                            expireAt |-> cachedAccessToken[1].expireAt,
                                            at |-> now]]
            /\ UNCHANGED tokenRequests
       ELSE IF ConfigMissing(config)
       THEN /\ tpc' = [tpc EXCEPT ![c] = "thrown"]
            /\ UNCHANGED <<tret, tokenRequests>>
       ELSE /\ tpc' = [tpc EXCEPT ![c] = "awaiting"]
            /\ tokenRequests' = tokenRequests + 1
            /\ UNCHANGED tret
    /\ UNCHANGED <<cachedAccessToken, now, ticks, config, gatewayVars, apiVars>>

\* axios.get rejects (network error or non-2xx): the exception leaves getAccessToken.
GetAccessTokenHttpError(c) ==
    /\ tpc[c] = "awaiting"
    /\ tpc' = [tpc EXCEPT ![c] = "thrown"]
    /\ UNCHANGED <<cachedAccessToken, now, ticks, config, tret, tokenRequests, gatewayVars, apiVars>>

\* axios.get resolves with a body: the rest of getAccessToken.
GetAccessTokenResponse(c) ==
    /\ tpc[c] = "awaiting"
    /\ \E data \in TokenResponses :
         IF TokenResponseFailed(data)
         THEN /\ tpc' = [tpc EXCEPT ![c] = "thrown"]
              /\ UNCHANGED <<cachedAccessToken, tret>>
         ELSE /\ cachedAccessToken' = <<[token |-> data.access_token[1],
                                         expireAt |-> ExpireAtOf(data, now)]>>
              /\ tpc' = [tpc EXCEPT ![c] = "returned"]
              /\ tret' = [tret EXCEPT ![c] = [kind |-> "refresh",
                                              token |-> data.access_token[1],
                                              expireAt |-> ExpireAtOf(data, now),
                                              at |-> now]]
    /\ UNCHANGED <<now, ticks, config, tokenRequests, gatewayVars, apiVars>>

\* Time passes between two steps of the event loop.
Tick ==
    /\ ticks < MaxTicks
    /\ \E d \in TickSteps : now' = now + d
    /\ ticks' = ticks + 1
    /\ UNCHANGED <<cachedAccessToken, config, tpc, tret, tokenRequests, gatewayVars, apiVars>>

\* db: the rows the model starts with, a free user and a VIP user; phone "" is NULL.
InitialUsers ==
    <<[id |-> 1, wx_open_id |-> "o1", phone |-> "", vip_level |-> "free"],
      [id |-> 2, wx_open_id |-> "o2", phone |-> "", vip_level |-> "vip"]>>

\* No login, phone or emotion-cookies request in progress.
ApiIdle ==
    /\ apc = "idle"
    /\ aroute = "none"
    /\ areq = JUndef
    /\ ares = NoResponse
    /\ aout = <<>>
    /\ aops = <<>>
ApiQuiet ==
    /\ users = InitialUsers
    /\ cookies = <<>>
    /\ jwtSecret = "jwt-secret"
    /\ ApiIdle

GatewayIdle ==
    /\ gpc = "idle"
    /\ gtask = "none"
    /\ graw = <<>>
    /\ greq = JUndef
    /\ gcalls = 0
    /\ gres = NoResponse
    /\ gsent = <<>>
    /\ gout = <<>>
    /\ glocal = JUndef

TokenInit ==
    /\ cachedAccessToken = <<>>
    /\ now = 0
    /\ ticks = 0
    /\ config \in Configs
    /\ tpc = [c \in Callers |-> "idle"]
    /\ tret = [c \in Callers |-> NoReturn]
    /\ tokenRequests = 0
    /\ GatewayIdle
    /\ ApiQuiet

TokenNext ==
    \/ \E c \in Callers : GetAccessTokenCall(c)
    \/ \E c \in Callers : GetAccessTokenHttpError(c)
    \/ \E c \in Callers : GetAccessTokenResponse(c)
    \/ Tick

SpecToken == TokenInit /\ [][TokenNext]_vars

(***************************************************************************)
(* The inputs of the gateway model: request bodies and model texts.        *)
(***************************************************************************)
ApiKeys == {JUndef, JStr(<<>>), JStr(<<"sk">>), JNum(1)}
EntryLists == {JUndef, JStr(<<"x">>), JArr(<<>>), JArr(<<JObj(<<>>)>>)}
DiaryBodies == [apiKey : ApiKeys, entries : EntryLists, customPrompt : {JUndef}]
LongTermBodies ==
    [apiKey : ApiKeys,
     range : {JUndef},
     folders : {JUndef, JArr(<<>>), JArr(<<JObj(<<>>)>>)},
     enrichment : {JUndef, JObj(<<>>), JObj(<<[k |-> <<"x">>, v |-> JNum(1)]>>)},
     skillTree : {JUndef, JObj(<<[k |-> <<"x">>, v |-> JNum(1)]>>)}]

\* Every text of at most n units over an alphabet.
TextsUpTo(alphabet, n) == UNION {[1..k -> alphabet] : k \in 0..n}

\* JSON source texts of values: strings, numbers, literals, containers.
ValueTexts ==
    {<<QUOTE, QUOTE>>, <<QUOTE, "x", QUOTE>>, <<QUOTE, BSLASH, QUOTE, QUOTE>>,
     <<"0">>, <<"1">>, <<"1", HUGEEXP>>, <<"null">>, <<"true">>,
     <<"{", "}">>, <<"[", "]">>}

\* An object text with, for each key, no member or a member with one of the values.
Member(key, valueText) == <<QUOTE>> \o key \o <<QUOTE, ":">> \o valueText
MemberChoices(key, values) == {<<>>} \cup {Member(key, v) : v \in values}
Comma(a, b) == IF a = <<>> THEN b ELSE IF b = <<>> THEN a ELSE a \o <<",">> \o b
DiaryObjectTexts ==
    {<<"{">> \o Comma(Comma(d, k), i) \o <<"}">> :
        d \in MemberChoices(KeyDiary, ValueTexts),
        k \in MemberChoices(KeyKeyPoints, ValueTexts),
        i \in MemberChoices(KeyInsights, ValueTexts)}

\* The same texts inside prose or a code fence, as models often answer.
Wrapped(texts) == texts \cup {<<"x", LF>> \o t \o <<LF, "x">> : t \in texts}

\* Serializations of diary-shaped objects with string values.
ShapeStrings == {<<>>, <<"x">>, <<QUOTE>>, <<"}", LF>>, <<BSLASH, "n">>}
SerializedShapes ==
    {JsonStringify(DiaryRecord(JStr(d), JStr(k), JStr(i))) :
        d \in ShapeStrings, k \in ShapeStrings, i \in ShapeStrings}

\* Short texts: prose, braces, quotes, headers, blanks in every arrangement.
ShortAlphabet == {"{", "}", QUOTE, ":", "x", RIJI, SP}
ShortTexts == TextsUpTo(ShortAlphabet, MaxLen)

\* Texts with section headers after a brace span that is not JSON.
SectionBodies == {<<>>, <<"x">>, <<SP, "y", LF>>}
SectionChoices(head, colon) == {<<>>} \cup {head \o <<colon>> \o b : b \in SectionBodies}
SectionTexts ==
    {<<"{", "x", "}", LF>> \o d \o k \o i :
        d \in SectionChoices(<<WANZHENG, RIJI>>, ":"),
        k \in SectionChoices(<<GUANJIAN, YAODIAN>>, FWCOLON),
        i \in SectionChoices(<<DONGCHA, YU, JIANYI>>, ":")}

\* The same headed sections in a text without any brace.
HeadedText(d, k, i) ==
    <<WANZHENG, RIJI, ":">> \o d \o <<GUANJIAN, YAODIAN, FWCOLON>> \o k
    \o <<DONGCHA, YU, JIANYI, ":">> \o i
ProseSectionTexts ==
    {HeadedText(d, k, i) : d \in SectionBodies, k \in SectionBodies, i \in SectionBodies}

DiaryContents ==
    Wrapped(DiaryObjectTexts) \cup SerializedShapes \cup ShortTexts \cup SectionTexts
    \cup ProseSectionTexts

LongTermValueTexts == {<<"{", "}">>, <<"1">>, <<QUOTE, "x", QUOTE>>}
LongTermObjectTexts ==
    {<<"{">> \o Comma(Comma(a, b), Comma(c, d)) \o <<"}">> :
        a \in MemberChoices(KeySummary, LongTermValueTexts),
        b \in MemberChoices(KeyInsight, LongTermValueTexts),
        c \in MemberChoices(KeyAdvice, LongTermValueTexts),
        d \in MemberChoices(KeyMetrics, LongTermValueTexts)}
\* Prose one unit longer than the slice, alone and after a brace span that is not JSON.
LongProse == [i \in 1..(SliceLen + 1) |-> "x"]
LongTermContents ==
    Wrapped(LongTermObjectTexts) \cup TextsUpTo({"{", "}", "x", SP}, MaxLen)
    \cup {LongProse, <<"{", "x", "}">> \o LongProse}

\* Texts a goal split has to deal with: enumerated lines, both line endings.
GoalsAlphabet == {"1", ".", "-", ")", SP, LF, CR, "x"}
GoalsContents == TextsUpTo(GoalsAlphabet, MaxLen)

(***************************************************************************)
(* Request bodies of the six tasks, as express.json() may hand them over.  *)
(***************************************************************************)
RequestApiKeys == ApiKeys \cup {JStr(<<"sk-other">>)}

\* An entry is identified by its text, the digit of its place in the request.
TimestampChoices == {JUndef, JNum(-1), JNum(0), JNum(1), JNum(5)}
Entry(i, timestamp) ==
    JObj(<<[k |-> KeyText, v |-> JStr(<<DigitUnits[i + 1]>>)]>>
         \o (IF timestamp = JUndef THEN <<>> ELSE <<[k |-> KeyTimestamp, v |-> timestamp]>>))
TimedEntryLists ==
    {JArr([i \in 1..n |-> Entry(i, f[i])]) :
        n \in 1..MaxEntries, f \in [1..MaxEntries -> TimestampChoices]}
RequestEntryLists ==
    TimedEntryLists
    \cup {JUndef, JStr(<<"x">>), JArr(<<>>), JArr(<<JNull>>), JArr(<<JNum(1)>>),
          JArr(<<Entry(1, JNum(1)), JNull>>)}
DailyBodies == [apiKey : ApiKeys, entries : RequestEntryLists]
RequestDiaryBodies ==
    [apiKey : ApiKeys, entries : RequestEntryLists,
     customPrompt : {JUndef, JStr(<<SP>>), JStr(<<SP, "p">>)}]

FolderEntryLists ==
    {JUndef, JStr(<<"x">>), JArr(<<>>), JArr(<<JNull>>), JArr(<<Entry(1, JNum(5))>>),
     JArr(<<Entry(1, JNum(60000)), Entry(2, JUndef)>>)}
Folder(date, entries) ==
    JObj(<<[k |-> KeyDate, v |-> JStr(<<date>>)]>>
         \o (IF entries = JUndef THEN <<>> ELSE <<[k |-> KeyEntries, v |-> entries]>>))
Folders == {JNull} \cup {Folder(d, es) : d \in {"1", "2"}, es \in FolderEntryLists}
FolderLists ==
    {JUndef, JArr(<<>>)} \cup {JArr(f) : f \in UNION {[1..n -> Folders] : n \in 1..MaxFolders}}
CounselorBodies == [apiKey : ApiKeys, folders : FolderLists]

GoalsBodies ==
    [apiKey : ApiKeys, title : {JUndef, JStr(<<>>), JStr(<<"x">>), JNum(1)}]
FortuneBodies ==
    [apiKey : RequestApiKeys,
     category : {JUndef, JNull, JNum(1), JStr(<<>>), JStr(<<"bogus">>),
                 JStr(<<"food">>), JStr(<<"physical">>)}]

\* Contents of the first choice for the tasks that pass the text on.
RequestContents ==
    {<<>>, <<SP>>, <<LF, SP>>, <<"x">>, <<SP, "x", LF>>,
     <<"1", ".", SP, "x", CR, LF, "-", "y">>}

(***************************************************************************)
(* Gateway handlers as steps: the part up to the await of callDeepSeek,    *)
(* then the part that runs when the completion request settles.            *)
(***************************************************************************)
\* A handler starts on a request body.
Begin(task, body) ==
    /\ gpc = "idle"
    /\ gtask' = task
    /\ greq' = body
    /\ graw' = <<>>
    /\ gout' = <<>>

\* res.status(...).json(...) without a completion request.
Answer(response) ==
    /\ gpc' = "done"
    /\ gres' = response
    /\ UNCHANGED <<gcalls, gsent, glocal>>

\* callDeepSeek(apiKey, systemPrompt, userContent, timeoutMs) up to its await: one
\* axios.post with Authorization: Bearer apiKey.
Send(apiKey, systemPrompt, userContent, timeoutMs, local) ==
    /\ gpc' = "awaiting"
    /\ gcalls' = gcalls + 1
    /\ gsent' = Append(gsent, [bearer |-> apiKey.v, prompt |-> systemPrompt,
                               content |-> userContent, timeout |-> timeoutMs])
    /\ glocal' = local
    /\ UNCHANGED gres

\* An exception leaves an async handler that has no try around it: the rejection is
\* unhandled and no response is sent, or the framework's error handler answers 500.
Unhandled ==
    {NoResponse, [status |-> 500, code |-> 0, message |-> MsgTypeError, data |-> JUndef]}

\* A settling step that also drops the cached credential.
SettledClearingCache(task, outcome) ==
    /\ gpc = "awaiting"
    /\ gtask = task
    /\ gpc' = "done"
    /\ gout' = <<outcome>>
    /\ cachedAccessToken' = <<>>
    /\ UNCHANGED <<gtask, greq, gcalls, gsent, glocal,
                   now, ticks, config, tpc, tret, tokenRequests, apiVars>>

\* What every handler leaves alone once its completion request settles.
Settled(task, outcome) ==
    /\ gpc = "awaiting"
    /\ gtask = task
    /\ gpc' = "done"
    /\ gout' = <<outcome>>
    /\ UNCHANGED <<gtask, greq, gcalls, gsent, glocal, tokenVars, apiVars>>

\* POST /analysis/daily up to the completion request.
DailyRequest(body) ==
    /\ Begin("daily", body)
    /\ IF ApiKeyMissing(body.apiKey) THEN Answer(Failure(400, MsgNoApiKey))
       ELSE IF EntriesMissing(body.entries) THEN Answer(Failure(400, MsgNoEntries))
       ELSE IF AnyThrowsOnRead(body.entries.v)
       THEN Answer(Failure(502, MsgTypeError))
       ELSE Send(body.apiKey, <<"DAILY_PROMPT">>, JArr(DailyEntries(body.entries.v)),
                 DefaultTimeoutMs, JUndef)
    /\ UNCHANGED <<tokenVars, apiVars>>

\* POST /analysis/daily once callDeepSeek settles.
DailyCompletion(outcome) ==
    /\ Settled("daily", outcome)
    /\ LET r == CallDeepSeek(outcome) IN
       IF r.ok
       THEN graw' = r.text
            /\ gres' = Success(JObj(<<[k |-> KeyAnalysis, v |-> JStr(r.text)]>>))
       ELSE graw' = <<>> /\ gres' = Failure(502, ErrorMessage(r, GenericMessage("daily")))

\* POST /analysis/diary up to the completion request.
DiaryRequest(body) ==
    /\ Begin("diary", body)
    /\ IF ApiKeyMissing(body.apiKey) THEN Answer(Failure(400, MsgNoApiKey))
       ELSE IF EntriesMissing(body.entries) THEN Answer(Failure(400, MsgNoEntries))
       ELSE IF AnyThrowsOnRead(body.entries.v)
       THEN Answer(Failure(502, MsgTypeError))
       ELSE Send(body.apiKey, DiaryPrompt(body.customPrompt),
                 JArr(DiaryEntries(body.entries.v)), DefaultTimeoutMs, JUndef)
    /\ UNCHANGED <<tokenVars, apiVars>>

\* POST /analysis/diary once callDeepSeek settles: extraction, or the catch block.
DiaryCompletion(outcome) ==
    /\ Settled("diary", outcome)
    /\ LET r == CallDeepSeek(outcome) IN
       IF r.ok
       THEN graw' = r.text /\ gres' = Success(DiaryExtract(r.text))
       ELSE graw' = <<>> /\ gres' = Failure(502, ErrorMessage(r, GenericMessage("diary")))

\* POST /analysis/counselor-diary up to the completion request; the entries are
\* collected before the try block.
CounselorRequest(body) ==
    /\ Begin("counselor-diary", body)
    /\ IF ApiKeyMissing(body.apiKey) THEN Answer(Failure(400, MsgNoApiKey))
       ELSE IF FoldersMissing(body.folders) THEN Answer(Failure(400, MsgNoEntries))
       ELSE IF \E i \in 1..Len(body.folders.v) : FolderThrows(body.folders.v[i])
       THEN \E response \in Unhandled : Answer(response)
       ELSE IF AllEntries(body.folders.v) = <<>> THEN Answer(Failure(400, MsgNoEntries))
       ELSE Send(body.apiKey, <<"COUNSELOR_DIARY_PROMPT">>,
                 JArr(CounselorEntries(AllEntries(body.folders.v))),
                 CounselorTimeoutMs, JUndef)
    /\ UNCHANGED <<tokenVars, apiVars>>

\* POST /analysis/counselor-diary once callDeepSeek settles.
CounselorCompletion(outcome) ==
    /\ Settled("counselor-diary", outcome)
    /\ LET r == CallDeepSeek(outcome) IN
       IF r.ok
       THEN graw' = r.text /\ gres' = Success(JObj(<<[k |-> KeyDiary, v |-> JStr(r.text)]>>))
       ELSE graw' = <<>> /\ gres' = Failure(502, ErrorMessage(r, GenericMessage("counselor-diary")))

\* POST /analysis/long-term up to the completion request.
LongTermRequest(body) ==
    /\ Begin("long-term", body)
    /\ IF ApiKeyMissing(body.apiKey) THEN Answer(Failure(400, MsgNoApiKey))
       ELSE IF ~HasAnyData(body) THEN Answer(Failure(400, MsgNoLongTermData))
       ELSE Send(body.apiKey, <<"LONG_TERM_PROMPT">>, LongTermPayload(body),
                 LongTermTimeoutMs, JUndef)
    /\ UNCHANGED <<tokenVars, apiVars>>

\* POST /analysis/long-term once callDeepSeek settles.
LongTermCompletion(outcome) ==
    /\ Settled("long-term", outcome)
    /\ LET r == CallDeepSeek(outcome) IN
       IF r.ok
       THEN graw' = r.text /\ gres' = Success(LongTermExtract(r.text))
       ELSE graw' = <<>> /\ gres' = Failure(502, ErrorMessage(r, GenericMessage("long-term")))

\* POST /goals/split up to the completion request.
GoalsRequest(body) ==
    /\ Begin("goals", body)
    /\ IF ApiKeyMissing(body.apiKey) THEN Answer(Failure(400, MsgNoApiKey))
       ELSE IF TitleMissing(body.title) THEN Answer(Failure(400, MsgNoTitle))
       ELSE Send(body.apiKey, <<"GOALS_PROMPT">>, body.title, DefaultTimeoutMs, JUndef)
    /\ UNCHANGED <<tokenVars, apiVars>>

\* POST /goals/split once callDeepSeek settles: the text becomes the list of steps.
GoalsCompletion(outcome) ==
    /\ Settled("goals", outcome)
    /\ LET r == CallDeepSeek(outcome) IN
       IF r.ok
       THEN graw' = r.text
            /\ gres' = Success(JObj(<<[k |-> KeySteps,
                                       v |-> JArr([i \in 1..Len(GoalSteps(r.text)) |->
                                                      JStr(GoalSteps(r.text)[i])])]>>))
       ELSE graw' = <<>> /\ gres' = Failure(502, ErrorMessage(r, GenericMessage("goals")))

\* POST /fortune/generate up to the completion request; the category is settled first.
FortuneRequest(body) ==
    /\ Begin("fortune", body)
    /\ IF ApiKeyMissing(body.apiKey) THEN Answer(Failure(400, MsgNoApiKey))
       ELSE \E r \in RandomIndexes :
              LET finalCategory == FinalCategory(body.category, r)
              IN Send(body.apiKey, <<"FORTUNE_PROMPTS">> \o finalCategory.v,
                      JStr(<<"task for">> \o finalCategory.v), DefaultTimeoutMs,
                      finalCategory)
    /\ UNCHANGED <<tokenVars, apiVars>>

\* POST /fortune/generate once callDeepSeek settles.
FortuneCompletion(outcome) ==
    /\ Settled("fortune", outcome)
    /\ LET r == CallDeepSeek(outcome) IN
       IF r.ok
       THEN graw' = r.text
            /\ gres' = Success(JObj(<<[k |-> KeyContent, v |-> JStr(Trim(r.text))],
                                      [k |-> KeyCategory, v |-> glocal]>>))
       ELSE graw' = <<>> /\ gres' = Failure(502, ErrorMessage(r, GenericMessage("fortune")))

\* The response is sent; the next request arrives.
NextRequest ==
    /\ gpc = "done"
    /\ gpc' = "idle"
    /\ gtask' = "none"
    /\ greq' = JUndef
    /\ gcalls' = 0
    /\ graw' = <<>>
    /\ gres' = NoResponse
    /\ gsent' = <<>>
    /\ gout' = <<>>
    /\ glocal' = JUndef
    /\ UNCHANGED <<tokenVars, apiVars>>

GatewayInit ==
    /\ cachedAccessToken = <<>>
    /\ now = 0
    /\ ticks = 0
    /\ config = [appId |-> "wx-app", secret |-> "wx-secret"]
    /\ tpc = [c \in Callers |-> "idle"]
    /\ tret = [c \in Callers |-> NoReturn]
    /\ tokenRequests = 0
    /\ GatewayIdle
    /\ ApiQuiet

GatewayNext ==
    \/ \E body \in DiaryBodies : DiaryRequest(body)
    \/ \E outcome \in Completions(DiaryContents) : DiaryCompletion(outcome)
    \/ \E body \in LongTermBodies : LongTermRequest(body)
    \/ \E outcome \in Completions(LongTermContents) : LongTermCompletion(outcome)
    \/ NextRequest

SpecGateway == GatewayInit /\ [][GatewayNext]_vars

\* The goal decomposition on the texts a model may return.
GoalsNext ==
    \/ \E body \in GoalsBodies : GoalsRequest(body)
    \/ \E outcome \in Completions(GoalsContents) : GoalsCompletion(outcome)
    \/ NextRequest

SpecGoals == GatewayInit /\ [][GoalsNext]_vars

\* The six tasks on the full range of request bodies, while a credential is cached.
RequestsInit ==
    /\ cachedAccessToken = <<[token |-> "tokA", expireAt |-> 7200000]>>
    /\ now = 0
    /\ ticks = 0
    /\ config = [appId |-> "wx-app", secret |-> "wx-secret"]
    /\ tpc = [c \in Callers |-> "idle"]
    /\ tret = [c \in Callers |-> NoReturn]
    /\ tokenRequests = 0
    /\ GatewayIdle
    /\ ApiQuiet

RequestsNext ==
    \/ \E body \in DailyBodies : DailyRequest(body)
    \/ \E outcome \in Completions(RequestContents) : DailyCompletion(outcome)
    \/ \E body \in RequestDiaryBodies : DiaryRequest(body)
    \/ \E outcome \in Completions(RequestContents) : DiaryCompletion(outcome)
    \/ \E body \in CounselorBodies : CounselorRequest(body)
    \/ \E outcome \in Completions(RequestContents) : CounselorCompletion(outcome)
    \/ \E body \in LongTermBodies : LongTermRequest(body)
    \/ \E outcome \in Completions(RequestContents) : LongTermCompletion(outcome)
    \/ \E body \in GoalsBodies : GoalsRequest(body)
    \/ \E outcome \in Completions(RequestContents) : GoalsCompletion(outcome)
    \/ \E body \in FortuneBodies : FortuneRequest(body)
    \/ \E outcome \in Completions(RequestContents) : FortuneCompletion(outcome)
    \/ NextRequest

SpecRequests == RequestsInit /\ [][RequestsNext]_vars

(***************************************************************************)
(* Claims about the credential cache, checked under SpecToken.             *)
(***************************************************************************)

\* C1 (as claimed): single-flight refresh - however many getAccessToken calls
\* overlap while the credential is absent or stale, at most one request to the
\* token endpoint is in flight at any moment.
C1_SingleFlight == Cardinality(InFlight) <= 1

\* C2: a call made while the cached credential has more than 60 s left returns
\* the cached token, sends no request to the token endpoint and leaves the
\* cache as it is.
C2_FreshCacheHit ==
    [][\A c \in Callers :
         (/\ tpc[c] = "idle"
          /\ tpc'[c] # "idle"
          /\ cachedAccessToken # <<>>
          /\ cachedAccessToken[1].expireAt > now + 60000)
         => (/\ tpc'[c] = "returned"
             /\ tret'[c].kind = "cache"
             /\ tret'[c].token = cachedAccessToken[1].token
             /\ tokenRequests' = tokenRequests
             /\ cachedAccessToken' = cachedAccessToken)]_vars

\* A call was answered from the cache.
C2_Witness == \E c \in Callers : tret[c].kind = "cache"

\* C3 (as claimed): every token getAccessToken returns has, when it is
\* returned, more than 60 s of lifetime left.
C3_ReturnedHasMargin ==
    \A c \in Callers :
        tret[c].kind # "none" => tret[c].expireAt > tret[c].at + 60000

\* C4: a failed refresh (configuration missing, errcode set, access_token
\* absent or empty, HTTP error) ends the call with an exception, returns no
\* token and leaves the cache as it was; the cache never holds, and no call
\* ever returns, a credential with an empty token.
C4_FailureKeepsCache ==
    /\ [](/\ (cachedAccessToken # <<>> =>
                /\ cachedAccessToken[1].token # ""
                /\ cachedAccessToken[1].expireAt \in Nat)
          /\ \A c \in Callers : tret[c].kind # "none" => tret[c].token # "")
    /\ [][\A c \in Callers :
            (tpc[c] # "thrown" /\ tpc'[c] = "thrown")
            => (cachedAccessToken' = cachedAccessToken /\ tret'[c] = NoReturn)]_vars

\* A refresh failed while a credential obtained earlier was in the cache.
C4_Witness ==
    \E c \in Callers : tpc[c] = "thrown" /\ tokenRequests = 2 /\ cachedAccessToken # <<>>

(***************************************************************************)
(* Claims about structured-output extraction, checked under SpecGateway.   *)
(***************************************************************************)
DiaryKeys == {KeyDiary, KeyKeyPoints, KeyInsights}
DiaryDone == gpc = "done" /\ gtask = "diary" /\ gres.status = 200
LongTermDone == gpc = "done" /\ gtask = "long-term" /\ gres.status = 200
Field(f) == Get(gres.data, f)
\* The object the whole model text parses to, when it does.
RawObject == JsonParse(graw).val
RawIsObject == JsonParse(graw).ok /\ JsonParse(graw).val.t = "obj"

\* C5 (as claimed): for every non-empty model text the diary response is a
\* success whose data has diary, keyPoints and insights, each of them a string.
C5_DiaryFieldsAreStrings ==
    (gpc = "done" /\ gtask = "diary" /\ graw # <<>>)
    => (/\ gres.status = 200
        /\ \A f \in DiaryKeys : Has(gres.data, f) /\ Field(f).t = "str")

\* C6 (as claimed): for every non-empty model text the long-term success data
\* has all four fields summary, psychologicalInsight, lifeAdvice and metrics.
C6_LongTermComplete ==
    LongTermDone
    => \A f \in {KeySummary, KeyInsight, KeyAdvice, KeyMetrics} : Has(gres.data, f)

\* The model text is exactly the serialization of an object with the three diary
\* fields, all of them strings.
RawIsSerializedShape ==
    /\ RawIsObject
    /\ Len(RawObject.v) = 3
    /\ \A f \in DiaryKeys : Has(RawObject, f) /\ Get(RawObject, f).t = "str"
    /\ JsonStringify(RawObject) = graw

\* C7 (as claimed): when the model text is the serialization of a diary-shaped
\* object with string values, empty ones included, extraction returns each of
\* the three fields equal to the object's value.
C7_RoundTripAnyStrings ==
    (DiaryDone /\ RawIsSerializedShape)
    => \A f \in DiaryKeys : Field(f) = Get(RawObject, f)

\* C7 (amended): the same for objects whose diary is not the empty string;
\* keyPoints and insights may be empty.
C7_RoundTrip ==
    (DiaryDone /\ RawIsSerializedShape /\ Get(RawObject, KeyDiary).v # <<>>)
    => \A f \in DiaryKeys : Field(f) = Get(RawObject, f)

\* A serialized object with a diary, an empty keyPoints and an insights that
\* needs escaping was extracted.
C7_Witness ==
    /\ DiaryDone
    /\ RawIsSerializedShape
    /\ Get(RawObject, KeyDiary).v # <<>>
    /\ Get(RawObject, KeyKeyPoints).v = <<>>
    /\ Get(RawObject, KeyInsights).v = <<QUOTE>>

\* C8 (as claimed): extraction applied to the serialization of its own result
\* returns the same three values.
C8_Idempotent ==
    DiaryDone => DiaryExtract(JsonStringify(gres.data)) = gres.data

\* The model text is a JSON object with some, not all, of the diary fields, each
\* field present holding a non-empty string.
RawIsPartialObject ==
    /\ RawIsObject
    /\ \E f \in DiaryKeys : Has(RawObject, f)
    /\ \E f \in DiaryKeys : ~Has(RawObject, f)
    /\ \A f \in DiaryKeys :
         Has(RawObject, f) => (Get(RawObject, f).t = "str" /\ Get(RawObject, f).v # <<>>)

\* C9 (as claimed): from a JSON object with only some of the diary fields, the
\* fields present are copied and each absent field is returned as "".
C9_AbsentFieldsEmpty ==
    (DiaryDone /\ RawIsPartialObject)
    => \A f \in DiaryKeys :
         Field(f) = IF Has(RawObject, f) THEN Get(RawObject, f) ELSE JStr(<<>>)

\* C9 (amended): from such an object the fields present are copied, an absent
\* keyPoints or insights is returned as "", and an absent diary is returned as
\* the entire model text.
C9_PartialObject ==
    (DiaryDone /\ RawIsPartialObject)
    => /\ \A f \in DiaryKeys : Has(RawObject, f) => Field(f) = Get(RawObject, f)
       /\ \A f \in {KeyKeyPoints, KeyInsights} :
            ~Has(RawObject, f) => Field(f) = JStr(<<>>)
       /\ ~Has(RawObject, KeyDiary) => Field(KeyDiary) = JStr(graw)

\* The text {"diary":"x"} was extracted.
C9_Witness ==
    /\ DiaryDone
    /\ graw = <<"{", QUOTE, "diary", QUOTE, ":", QUOTE, "x", QUOTE, "}">>
    /\ gres.data = DiaryRecord(JStr(<<"x">>), JStr(<<>>), JStr(<<>>))

\* The text has no "{" followed somewhere by "}", and no header word before a colon.
RawIsPlainProse ==
    /\ ~\E i, j \in 1..Len(graw) : i < j /\ graw[i] = "{" /\ graw[j] = "}"
    /\ ~\E c \in 2..Len(graw) :
          graw[c] \in {":", FWCOLON} /\ graw[c - 1] \in {RIJI, YAODIAN, DONGCHA, JIANYI}

\* C10: for a model text with no brace span and no section header, extraction
\* returns the entire text as diary and "" as keyPoints and as insights.
C10_PlainProse ==
    (DiaryDone /\ RawIsPlainProse)
    => gres.data = DiaryRecord(JStr(graw), JStr(<<>>), JStr(<<>>))

\* A text of several units of prose, with a lone brace, was extracted.
C10_Witness ==
    DiaryDone /\ RawIsPlainProse /\ graw = <<"x", SP, "{", "x">>

(***************************************************************************)
(* Claims about the six gateway tasks, checked under SpecRequests.         *)
(***************************************************************************)
GatewayDone == gpc = "done"
GatewayStarted == gpc \in {"awaiting", "done"}

\* The request carries no usable key: apiKey is absent, not a string, or empty.
LacksApiKey == greq.apiKey.t # "str" \/ greq.apiKey.v = <<>>
NonEmptyArray(x) == x.t = "arr" /\ Len(x.v) > 0
\* A folder holds an entry when its entries are a non-empty array.
HoldsEntry(f) == f.t = "obj" /\ NonEmptyArray(Get(f, KeyEntries))
\* The request lacks the minimum input of its task.
LacksMinimumInput ==
    CASE gtask \in {"daily", "diary"} -> ~NonEmptyArray(greq.entries)
      [] gtask = "counselor-diary" ->
            ~NonEmptyArray(greq.folders)
            \/ \A i \in 1..Len(greq.folders.v) : ~HoldsEntry(greq.folders.v[i])
      [] gtask = "long-term" ->
            /\ ~NonEmptyArray(greq.folders)
            /\ ~(greq.enrichment.t = "obj" /\ Len(greq.enrichment.v) > 0)
            /\ ~(greq.skillTree.t = "obj" /\ Len(greq.skillTree.v) > 0)
      [] gtask = "goals" -> greq.title.t # "str" \/ greq.title.v = <<>>
      [] OTHER -> FALSE

\* C11 (as claimed): for each of the six tasks, a request that lacks a string apiKey
\* or the task's minimum input is answered with HTTP 400, and no completion request
\* is issued for it.
C11_InvalidRequestRejected ==
    (GatewayStarted /\ (LacksApiKey \/ LacksMinimumInput))
        => (GatewayDone /\ gres.status = 400 /\ gres.code = 400 /\ gcalls = 0 /\ gsent = <<>>)

\* The completion request settled in failure: a rejection, or no content, or
\* content of white space only.
BlankText(c) == \A i \in 1..Len(c) : c[i] \in {SP, LF, CR}
CompletionFailed ==
    /\ gout # <<>>
    /\ (gout[1].kind # "ok" \/ gout[1].content = <<>> \/ BlankText(gout[1].content[1]))
OwnMessages == {MsgEmptyContent, MsgTimeout, MsgNetwork, MsgHttpStatus}

\* C12: when the completion call fails (transport error, non-2xx status, timeout,
\* empty content) the handler answers HTTP 502 with code 502, shapes no data and
\* returns none; the message is the provider's error message verbatim when there
\* is one, else the error's own message or the task's generic text.
C12_FailureIs502 ==
    (GatewayDone /\ CompletionFailed)
        => /\ gres.status = 502
           /\ gres.code = 502
           /\ gres.data = JUndef
           /\ graw = <<>>
           /\ IF gout[1].providerMsg # ""
              THEN gres.message = gout[1].providerMsg
              ELSE gres.message \in OwnMessages \cup {GenericMessage(gtask)}

\* A provider's error message was relayed.
C12_Witness ==
    /\ GatewayDone
    /\ CompletionFailed
    /\ gout[1].providerMsg = MsgProvider
    /\ gres.message = MsgProvider

\* C13: a completion request that times out is answered 502 with a message that
\* says so, different from the message of every other failure; no step of a gateway
\* task changes the credential cache of the identity provider.
C13_TimeoutAndCacheFrame ==
    [][/\ cachedAccessToken' = cachedAccessToken
       /\ (gpc' = "done" /\ gout' # <<>> /\ gout'[1].kind = "timeout")
            => (/\ gres'.status = 502
                /\ gres'.message = MsgTimeout
                /\ gres'.message \notin {MsgNetwork, MsgHttpStatus, MsgEmptyContent, MsgProvider})
       /\ (gpc' = "done" /\ gout' # <<>> /\ gout'[1].kind # "timeout")
            => gres'.message # MsgTimeout]_vars

\* A request timed out while a credential was cached.
C13_Witness ==
    /\ GatewayDone
    /\ gout # <<>>
    /\ gout[1].kind = "timeout"
    /\ gres.status = 502
    /\ cachedAccessToken # <<>>

\* The field of a successful response that carries the model's text.
SourceField ==
    CASE gtask = "daily" -> Get(gres.data, KeyAnalysis)
      [] gtask \in {"diary", "counselor-diary"} -> Get(gres.data, KeyDiary)
      [] gtask = "fortune" -> Get(gres.data, KeyContent)
      [] OTHER -> JStr(graw)

\* C14: a completion whose first choice has no content, or content that is empty
\* or white space only, is a failure answered 502; no task answers code 0 on an
\* empty analysis, diary, content or steps source text.
C14_EmptyContentFails ==
    /\ (GatewayDone /\ gout # <<>> /\ gout[1].kind = "ok"
          /\ (gout[1].content = <<>> \/ BlankText(gout[1].content[1])))
        => (gres.status = 502 /\ gres.code = 502 /\ gres.message = MsgEmptyContent)
    /\ (GatewayDone /\ gres.status = 200)
        => (/\ gres.code = 0
            /\ graw # <<>>
            /\ ~BlankText(graw)
            /\ SourceField \notin {JUndef, JNull, JStr(<<>>)})

\* Content of white space only was refused.
C14_Witness ==
    /\ GatewayDone
    /\ gout # <<>>
    /\ gout[1].kind = "ok"
    /\ gout[1].content = <<<<LF, SP>>>>
    /\ gres.status = 502

\* The diary task's request and what it sent: the entries in the order received,
\* and the list that went out as the user content.
DiarySent == gtask = "diary" /\ gsent # <<>>
EntriesIn == greq.entries.v
EntriesOut == gsent[1].content.v
\* The place in the request of the entry sent at place p.
PlaceOf(p) == CHOOSE i \in 1..Len(EntriesIn) : Get(EntriesIn[i], KeyText) = Get(EntriesOut[p], KeyText)
\* An entry's timestamp, 0 when it has none.
StampOf(i) == IF Has(EntriesIn[i], KeyTimestamp) THEN Get(EntriesIn[i], KeyTimestamp).v ELSE 0

\* C15: the diary task sends the entries in ascending timestamp order, a missing
\* timestamp counting as 0 and entries of equal timestamp keeping their input
\* order; index is the 1-based place after sorting. For timestamps 5, 1, 5 the
\* order sent is the second entry, the first, the third.
C15_StableTimestampOrder ==
    DiarySent =>
        /\ Len(EntriesOut) = Len(EntriesIn)
        /\ \A p \in 1..Len(EntriesOut) : Get(EntriesOut[p], KeyIndex) = JNum(p)
        /\ {PlaceOf(p) : p \in 1..Len(EntriesOut)} = 1..Len(EntriesIn)
        /\ \A p, q \in 1..Len(EntriesOut) :
              p < q => \/ StampOf(PlaceOf(p)) < StampOf(PlaceOf(q))
                       \/ (StampOf(PlaceOf(p)) = StampOf(PlaceOf(q)) /\ PlaceOf(p) < PlaceOf(q))
        /\ (EntriesIn = <<Entry(1, JNum(5)), Entry(2, JNum(1)), Entry(3, JNum(5))>>)
              => <<PlaceOf(1), PlaceOf(2), PlaceOf(3)>> = <<2, 1, 3>>

\* The entries with timestamps 5, 1, 5 were sent in the order second, first, third.
C15_Witness ==
    /\ DiarySent
    /\ EntriesIn = <<Entry(1, JNum(5)), Entry(2, JNum(1)), Entry(3, JNum(5))>>
    /\ <<PlaceOf(1), PlaceOf(2), PlaceOf(3)>> = <<2, 1, 3>>

FortuneNames == {"physical", "touch", "social", "cognitive", "sensory", "food", "selfCare"}
FortuneMembers == {JStr(<<n>>) : n \in FortuneNames}

\* C16: the category of a fortune is always one of physical, touch, social,
\* cognitive, sensory, food, selfCare: a member that is asked for is the one used
\* for the prompt and returned; an absent, empty or unknown category is replaced
\* by some member, never answered with an error.
C16_CategoryIsMember ==
    (gtask = "fortune" /\ GatewayStarted /\ ~LacksApiKey) =>
        /\ Len(gsent) = 1
        /\ \E m \in FortuneMembers :
              /\ gsent[1].prompt = <<"FORTUNE_PROMPTS">> \o m.v
              /\ (greq.category \in FortuneMembers => m = greq.category)
              /\ (gres.status = 200 => Get(gres.data, KeyCategory) = m)
        /\ (GatewayDone /\ gres.status # 200) => (gres.status = 502 /\ CompletionFailed)

\* An unknown category was replaced by a member and the fortune returned.
C16_Witness ==
    /\ gtask = "fortune"
    /\ GatewayDone
    /\ gres.status = 200
    /\ greq.category = JStr(<<"bogus">>)
    /\ Get(gres.data, KeyCategory) \in FortuneMembers

\* C18 (as claimed): every request that passes validation issues exactly one
\* completion request, carrying the caller's apiKey as bearer credential: never
\* none, and no second one after a failure.
C18_ExactlyOneCompletionRequest ==
    (GatewayStarted /\ ~LacksApiKey /\ ~LacksMinimumInput) =>
        /\ gcalls = 1
        /\ Len(gsent) = 1
        /\ gsent[1].bearer = greq.apiKey.v

(***************************************************************************)
(* Claim about the goal decomposition, checked under SpecGoals.            *)
(***************************************************************************)
GoalsDone == gpc = "done" /\ gtask = "goals" /\ gres.status = 200
StepsOut == Get(gres.data, KeySteps).v
\* The lines of the returned text: a line starts at the beginning or after a line
\* feed, and ends before the next line feed and the carriage return in front of it.
LineStarts == {1} \cup {i + 1 : i \in {j \in 1..Len(graw) : graw[j] = LF}}
NextFeed(a) ==
    IF \E i \in a..Len(graw) : graw[i] = LF
    THEN CHOOSE i \in a..Len(graw) : graw[i] = LF /\ \A j \in a..(i - 1) : graw[j] # LF
    ELSE Len(graw) + 1
LineAt(a) ==
    LET f == NextFeed(a)
    IN SubSeq(graw, a, IF f <= Len(graw) /\ f - 1 >= a /\ graw[f - 1] = CR THEN f - 2 ELSE f - 1)
KeptStarts == {a \in LineStarts : ~BlankText(LineAt(a))}
NthKept(n) == CHOOSE a \in KeptStarts : Cardinality({b \in KeptStarts : b < a}) = n - 1
EnumerationMarks == {"0", "1", "2", "3", "4", "5", "6", "7", "8", "9", ".", "-", ")", SP, LF, CR}

\* C19: the steps of a goal are the lines of the returned text, split on \n or
\* \r\n, each trimmed, blank lines dropped, and each without its leading run of
\* enumeration characters (digits, '.', '-', ')', white space), in the order of
\* the lines.
C19_StepsAreStrippedLines ==
    GoalsDone =>
        /\ Len(StepsOut) = Cardinality(KeptStarts)
        /\ \A n \in 1..Len(StepsOut) :
              /\ StepsOut[n].t = "str"
              /\ \E e \in 0..Len(Trim(LineAt(NthKept(n)))) :
                    /\ Trim(LineAt(NthKept(n))) =
                          SubSeq(Trim(LineAt(NthKept(n))), 1, e) \o StepsOut[n].v
                    /\ \A i \in 1..e : Trim(LineAt(NthKept(n)))[i] \in EnumerationMarks
              /\ (StepsOut[n].v # <<>> => StepsOut[n].v[1] \notin EnumerationMarks)

\* Two lines, the first enumerated, became two steps.
C19_Witness ==
    /\ GoalsDone
    /\ graw = <<"1", "x", LF, "x">>
    /\ StepsOut = <<JStr(<<"x">>), JStr(<<"x">>)>>

(***************************************************************************)
(* Login and phone binding: routes/auth.ts, middleware/auth.ts and         *)
(* code2Session / getPhoneNumber of services/wechat.ts.                    *)
(***************************************************************************)
MsgNoToken == "no token"
MsgNoJwt == "JWT not configured"
MsgBadToken == "token invalid or expired"
MsgNoUser == "user does not exist"
MsgNoCode == "missing code"
MsgNoWechatConfig == "wechat AppID/Secret not configured"
MsgWechatError == "wechat interface error"
MsgNotVip == "VIP only"
MsgNoDate == "missing date"
KeyUserId == <<"userId">>
KeyId == <<"id">>
KeyItems == <<"items">>

\* The Authorization header: absent, a token jwt.verify rejects, or a token whose
\* payload names a user id (which may have no row).
NoAuth == [kind |-> "none", userId |-> 0]
Auths ==
    {NoAuth, [kind |-> "bad", userId |-> 0]} \cup {[kind |-> "ok", userId |-> u] : u \in 1..4}

\* authMiddleware with the 500 branch left out.
AuthFailureNoConfigCheck(auth) ==
    IF auth.kind = "none" THEN Failure(401, MsgNoToken)
    ELSE IF auth.kind = "bad" \/ jwtSecret = "" THEN Failure(401, MsgBadToken)
    ELSE IF auth.userId \notin 1..Len(users) THEN Failure(401, MsgNoUser)
    ELSE NoResponse
\* authMiddleware: the response it sends, NoResponse when it calls next().
AuthFailure(auth) ==
    IF auth.kind = "none" THEN Failure(401, MsgNoToken)
    ELSE IF jwtSecret = "" THEN Failure(500, MsgNoJwt)
    ELSE IF auth.kind = "bad" THEN Failure(401, MsgBadToken)
    ELSE IF auth.userId \notin 1..Len(users) THEN Failure(401, MsgNoUser)
    ELSE NoResponse

\* !code || typeof code !== 'string'
CodeMissing(code) == ~Truthy(code) \/ code.t # "str"
CodeBodies == [code : {JUndef, JStr(<<>>), JNum(1), JStr(<<"c">>)}]

\* A handler of the api starts on a request.
ApiBegin(route, auth, body) ==
    /\ apc = "idle"
    /\ aroute' = route
    /\ areq' = [auth |-> auth, body |-> body]
    /\ aout' = <<>>

\* res.status(...).json(...)
ApiAnswer(response) ==
    /\ apc' = "done"
    /\ ares' = response

\* axios.get(CODE2SESSION_URL): a rejection, or a body with errcode and openid.
SessionOutcomes ==
    {[kind |-> "network", errcode |-> 0, openid |-> ""]}
    \cup {[kind |-> "ok", errcode |-> e, openid |-> o] : e \in {0, 40029}, o \in {"", "o1", "o3"}}

\* POST /api/auth/login up to the await inside code2Session.
LoginRequest(body) ==
    /\ ApiBegin("login", NoAuth, body)
    /\ IF CodeMissing(body.code) THEN ApiAnswer(Failure(400, MsgNoCode))
       ELSE IF jwtSecret = "" THEN ApiAnswer(Failure(500, MsgNoJwt))
       ELSE IF ConfigMissing(config) THEN ApiAnswer(Failure(401, MsgNoWechatConfig))
       ELSE apc' = "session" /\ UNCHANGED ares
    /\ UNCHANGED <<users, cookies, jwtSecret, aops, tokenVars, gatewayVars>>

\* POST /api/auth/login once axios.get settles: the user is found or created.
LoginSession(outcome) ==
    /\ apc = "session"
    /\ aout' = Append(aout, outcome)
    /\ IF outcome.kind # "ok"
       THEN ApiAnswer(Failure(401, MsgNetwork)) /\ UNCHANGED users
       ELSE IF outcome.errcode # 0 \/ outcome.openid = ""
       THEN ApiAnswer(Failure(401, MsgWechatError)) /\ UNCHANGED users
       ELSE LET found == {i \in 1..Len(users) : users[i].wx_open_id = outcome.openid}
            IN IF found # {}
               THEN /\ ApiAnswer(Success(JObj(<<[k |-> KeyUserId,
                                                v |-> JNum(CHOOSE i \in found : TRUE)]>>)))
                    /\ UNCHANGED users
               ELSE /\ users' = Append(users, [id |-> Len(users) + 1,
                                               wx_open_id |-> outcome.openid,
                                               phone |-> "", vip_level |-> "free"])
                    /\ ApiAnswer(Success(JObj(<<[k |-> KeyUserId,
                                                v |-> JNum(Len(users) + 1)]>>)))
    /\ UNCHANGED <<cookies, jwtSecret, aroute, areq, aops, tokenVars, gatewayVars>>

\* Bodies of the token endpoint the phone binding meets.
PhoneTokenOutcomes ==
    {[kind |-> "network", data |-> [access_token |-> <<>>, expires_in |-> <<>>, errcode |-> <<>>]]}
    \cup {[kind |-> "ok", data |-> d] :
            d \in [access_token : {<<>>, <<"tokB">>}, expires_in : {<<>>}, errcode : {<<>>, <<40013>>}]}

\* axios.post(GET_PHONE_URL): a rejection, or a body with errcode and phone_info
\* (phone "" when there is no phone_info).
PhoneOutcomes ==
    {[kind |-> "network", errcode |-> 0, phone |-> ""]}
    \cup {[kind |-> "ok", errcode |-> e, phone |-> p] : e \in {0, 40029}, p \in {"", "p1"}}

\* axios.post(`${GET_PHONE_URL}?access_token=${accessToken}`, { code }): the call
\* is on its way with that token in its URL.
PhoneCall(accessToken) ==
    /\ apc' = "phone"
    /\ aops' = <<"getuserphonenumber", accessToken>>

\* POST /api/auth/phone up to the first await that leaves the process: the
\* middleware, the code check, and getAccessToken's cache hit, throw or request.
PhoneRequest(auth, body) ==
    /\ ApiBegin("phone", auth, body)
    /\ tokenRequests < MaxTokenRequests
    /\ IF AuthFailure(auth) # NoResponse
       THEN ApiAnswer(AuthFailure(auth)) /\ UNCHANGED <<aops, tokenRequests>>
       ELSE IF CodeMissing(body.code)
       THEN ApiAnswer(Failure(400, MsgNoCode)) /\ UNCHANGED <<aops, tokenRequests>>
       ELSE IF IsFresh(cachedAccessToken, now)
       THEN PhoneCall(cachedAccessToken[1].token) /\ UNCHANGED <<ares, tokenRequests>>
       ELSE IF ConfigMissing(config)
       THEN ApiAnswer(Failure(400, MsgNoWechatConfig)) /\ UNCHANGED <<aops, tokenRequests>>
       ELSE apc' = "token" /\ tokenRequests' = tokenRequests + 1 /\ UNCHANGED <<ares, aops>>
    /\ UNCHANGED <<users, cookies, jwtSecret, gatewayVars,
                   cachedAccessToken, now, ticks, config, tpc, tret>>

\* POST /api/auth/phone once the token request settles.
PhoneToken(outcome) ==
    /\ apc = "token"
    /\ aout' = Append(aout, outcome)
    /\ IF outcome.kind # "ok"
       THEN ApiAnswer(Failure(400, MsgNetwork)) /\ UNCHANGED <<cachedAccessToken, aops>>
       ELSE IF TokenResponseFailed(outcome.data)
       THEN ApiAnswer(Failure(400, MsgWechatError)) /\ UNCHANGED <<cachedAccessToken, aops>>
       ELSE /\ cachedAccessToken' = <<[token |-> outcome.data.access_token[1],
                                       expireAt |-> ExpireAtOf(outcome.data, now)]>>
            /\ PhoneCall(outcome.data.access_token[1])
            /\ UNCHANGED ares
    /\ UNCHANGED <<users, cookies, jwtSecret, aroute, areq, gatewayVars,
                   now, ticks, config, tpc, tret, tokenRequests>>

\* The last step of the phone binding with the errcode of the response not looked at.
PhoneNumberIgnoringErrcode(outcome) ==
    /\ apc = "phone"
    /\ aout' = Append(aout, outcome)
    /\ IF outcome.kind # "ok"
       THEN ApiAnswer(Failure(400, MsgNetwork)) /\ UNCHANGED users
       ELSE IF outcome.phone = ""
       THEN ApiAnswer(Failure(400, MsgWechatError)) /\ UNCHANGED users
       ELSE /\ users' = [users EXCEPT ![areq.auth.userId].phone = outcome.phone]
            /\ ApiAnswer(Success(JObj(<<[k |-> KeyUserId, v |-> JNum(areq.auth.userId)]>>)))
    /\ UNCHANGED <<cookies, jwtSecret, aroute, areq, aops, tokenVars, gatewayVars>>

\* POST /api/auth/phone once the phone-number request settles: updateUserPhone.
PhoneNumber(outcome) ==
    /\ apc = "phone"
    /\ aout' = Append(aout, outcome)
    /\ IF outcome.kind # "ok"
       THEN ApiAnswer(Failure(400, MsgNetwork)) /\ UNCHANGED users
       ELSE IF outcome.errcode # 0 \/ outcome.phone = ""
       THEN ApiAnswer(Failure(400, MsgWechatError)) /\ UNCHANGED users
       ELSE /\ users' = [users EXCEPT ![areq.auth.userId].phone = outcome.phone]
            /\ ApiAnswer(Success(JObj(<<[k |-> KeyUserId, v |-> JNum(areq.auth.userId)]>>)))
    /\ UNCHANGED <<cookies, jwtSecret, aroute, areq, aops, tokenVars, gatewayVars>>

\* The response is sent; the next request arrives.
ApiNextRequest ==
    /\ apc = "done"
    /\ apc' = "idle"
    /\ aroute' = "none"
    /\ areq' = JUndef
    /\ ares' = NoResponse
    /\ aout' = <<>>
    /\ aops' = <<>>
    /\ UNCHANGED <<users, cookies, jwtSecret, tokenVars, gatewayVars>>

AuthInit ==
    /\ cachedAccessToken \in {<<>>, <<[token |-> "tokA", expireAt |-> 7200000]>>,
                               <<[token |-> "tokOld", expireAt |-> 0]>>}
    /\ now = 0
    /\ ticks = 0
    /\ config \in {[appId |-> "wx-app", secret |-> "wx-secret"], [appId |-> "", secret |-> "wx-secret"]}
    /\ tpc = [c \in Callers |-> "idle"]
    /\ tret = [c \in Callers |-> NoReturn]
    /\ tokenRequests = 0
    /\ GatewayIdle
    /\ users = InitialUsers
    /\ cookies = <<>>
    /\ jwtSecret \in {"", "jwt-secret"}
    /\ ApiIdle

AuthNext ==
    \/ \E body \in CodeBodies : LoginRequest(body)
    \/ \E outcome \in SessionOutcomes : LoginSession(outcome)
    \/ \E auth \in Auths, body \in CodeBodies : PhoneRequest(auth, body)
    \/ \E outcome \in PhoneTokenOutcomes : PhoneToken(outcome)
    \/ \E outcome \in PhoneOutcomes : PhoneNumber(outcome)
    \/ ApiNextRequest

SpecAuth == AuthInit /\ [][AuthNext]_vars

\* The error kinds of a login or phone-binding request, read off its response and
\* the upstream outcomes it met.
AuthDone == apc = "done" /\ aroute \in {"login", "phone"}
ConfigurationErrorMet == AuthDone /\ ares.message \in {MsgNoJwt, MsgNoWechatConfig}
InputErrorMet == AuthDone /\ ares.message = MsgNoCode
UpstreamFailureMet ==
    /\ AuthDone
    /\ aout # <<>>
    /\ ares.status # 200

\* C17 (as claimed): a configuration error (a missing secret, such as the wechat
\* appId/secret when login or phone binding needs it) is answered HTTP 500, a
\* caller input error 400, and every upstream failure 502.
C17_ErrorKindStatus ==
    /\ ConfigurationErrorMet => ares.status = 500
    /\ InputErrorMet => ares.status = 400
    /\ UpstreamFailureMet => ares.status = 502

(***************************************************************************)
(* Emotion cookies: routes/emotionCookies.ts and the emotion_cookies       *)
(* statements of db/index.ts.                                              *)
(***************************************************************************)
\* JSON.stringify of an object leaves out the members that are undefined.
Defined(pairs) == SelectSeq(pairs, LAMBDA m : m.v.t # "undef")

\* !date || typeof date !== 'string'
DateMissing(date) == ~Truthy(date) \/ date.t # "str"

CookieBodies ==
    [date : {JUndef, JNum(1), JStr(<<>>), JStr(<<"1">>), JStr(<<"2">>)},
     entries : {JUndef},
     analysis : {JUndef, JStr(<<"a">>)}]

\* SELECT id FROM emotion_cookies WHERE user_id = ? AND date = ? AND is_deleted = 0
ExistedRows(userId, date) ==
    {i \in 1..Len(cookies) :
        cookies[i].user_id = userId /\ cookies[i].date = date /\ cookies[i].is_deleted = 0}
\* INSERT INTO emotion_cookies (user_id, date, data, created_at, updated_at): the new
\* row, its id from AUTOINCREMENT and is_deleted from the column default. The
\* timestamps are the clock's milliseconds, which toISOString() writes out.
InsertedRow(userId, date, dataJson) ==
    [id |-> Len(cookies) + 1, user_id |-> userId, date |-> date, data |-> dataJson,
     created_at |-> now, updated_at |-> now, is_deleted |-> 0]
\* An upsert that inserts whether or not the day has a row.
UpsertAlwaysInsert(userId, date, dataJson) ==
    Append(cookies, InsertedRow(userId, date, dataJson))
\* upsertEmotionDay: the table after it.
UpsertEmotionDay(userId, date, dataJson) ==
    IF ExistedRows(userId, date) # {}
    THEN LET id == CHOOSE i \in ExistedRows(userId, date) :
                        \A j \in ExistedRows(userId, date) : i <= j
         IN [cookies EXCEPT ![id].data = dataJson, ![id].updated_at = now]
    ELSE Append(cookies, InsertedRow(userId, date, dataJson))
\* The statements upsertEmotionDay runs on the table.
UpsertStatements(userId, date) ==
    IF ExistedRows(userId, date) # {}
    THEN <<"select", "update", "select">>
    ELSE <<"select", "insert", "select">>

\* listEmotionDaysWithinMonths: the user's rows, ORDER BY date DESC.
UserRows(userId) ==
    {i \in 1..Len(cookies) : cookies[i].user_id = userId /\ cookies[i].is_deleted = 0}
ListEmotionDays(userId) ==
    LET rows == UserRows(userId)
        place(i) == Cardinality({j \in rows : TextBefore(cookies[i].date, cookies[j].date)
                                              \/ (cookies[j].date = cookies[i].date /\ j < i)}) + 1
    IN [p \in 1..Cardinality(rows) |-> cookies[CHOOSE i \in rows : place(i) = p]]
\* One item of the list: JSON.parse(r.data || '{}'), entries ?? [], analysis.
CookieItem(row) ==
    LET parsed == JsonParse(row.data).val
    IN JObj(<<[k |-> KeyId, v |-> JNum(row.id)],
              [k |-> KeyDate, v |-> JStr(row.date)],
              [k |-> KeyEntries, v |-> IF Get(parsed, KeyEntries).t \in {"undef", "null"}
                                       THEN JArr(<<>>) ELSE Get(parsed, KeyEntries)],
              [k |-> KeyAnalysis, v |-> Get(parsed, KeyAnalysis)],
              [k |-> <<"createdAt">>, v |-> JNum(row.created_at)],
              [k |-> <<"updatedAt">>, v |-> JNum(row.updated_at)]>>)

\* const user = req.user && getUserById(req.user.id), with the VIP test left out.
CookieGateNoVipCheck(auth) ==
    IF AuthFailure(auth) # NoResponse THEN AuthFailure(auth)
    ELSE IF auth.userId \notin 1..Len(users) THEN Failure(401, MsgNoToken)
    ELSE NoResponse
\* The middleware and the two tests both routes start with: the response sent,
\* NoResponse when the request may go on.
CookieGate(auth) ==
    IF AuthFailure(auth) # NoResponse THEN AuthFailure(auth)
    ELSE IF auth.userId \notin 1..Len(users) THEN Failure(401, MsgNoToken)
    ELSE IF users[auth.userId].vip_level # "vip" THEN Failure(403, MsgNotVip)
    ELSE NoResponse

\* POST /api/emotion-cookies
CookiesPost(auth, body) ==
    /\ ApiBegin("cookies-post", auth, body)
    /\ IF CookieGate(auth) # NoResponse
       THEN ApiAnswer(CookieGate(auth)) /\ UNCHANGED <<cookies, aops>>
       ELSE IF DateMissing(body.date)
       THEN ApiAnswer(Failure(400, MsgNoDate)) /\ UNCHANGED <<cookies, aops>>
       ELSE LET dataJson == JsonStringify(JObj(Defined(
                                <<[k |-> KeyEntries, v |-> body.entries],
                                  [k |-> KeyAnalysis, v |-> body.analysis]>>)))
                after == UpsertEmotionDay(auth.userId, body.date.v, dataJson)
                id == CHOOSE i \in 1..Len(after) :
                          /\ after[i].user_id = auth.userId
                          /\ after[i].date = body.date.v
                          /\ \A j \in 1..(i - 1) :
                                ~(after[j].user_id = auth.userId /\ after[j].date = body.date.v)
            IN /\ cookies' = after
               /\ aops' = UpsertStatements(auth.userId, body.date.v)
               /\ ApiAnswer(Success(JObj(<<[k |-> KeyId, v |-> JNum(id)],
                                           [k |-> KeyDate, v |-> body.date]>>)))
    /\ UNCHANGED <<users, jwtSecret, tokenVars, gatewayVars>>

\* GET /api/emotion-cookies
CookiesGet(auth) ==
    /\ ApiBegin("cookies-get", auth, JUndef)
    /\ IF CookieGate(auth) # NoResponse
       THEN ApiAnswer(CookieGate(auth)) /\ UNCHANGED aops
       ELSE LET rows == ListEmotionDays(auth.userId)
            IN /\ aops' = <<"select">>
               /\ ApiAnswer(Success(JObj(<<[k |-> KeyItems,
                                           v |-> JArr([p \in 1..Len(rows) |-> CookieItem(rows[p])])]>>)))
    /\ UNCHANGED <<users, cookies, jwtSecret, tokenVars, gatewayVars>>

CookiesInit ==
    /\ cachedAccessToken = <<>>
    /\ now = 0
    /\ ticks = 0
    /\ config = [appId |-> "wx-app", secret |-> "wx-secret"]
    /\ tpc = [c \in Callers |-> "idle"]
    /\ tret = [c \in Callers |-> NoReturn]
    /\ tokenRequests = 0
    /\ GatewayIdle
    /\ users = Append(InitialUsers, [id |-> 3, wx_open_id |-> "o3", phone |-> "", vip_level |-> "vip"])
    /\ cookies = <<>>
    /\ jwtSecret \in {"", "jwt-secret"}
    /\ ApiIdle

CookiesNext ==
    \/ \E auth \in Auths, body \in CookieBodies : CookiesPost(auth, body)
    \/ \E auth \in Auths : CookiesGet(auth)
    \/ ApiNextRequest

SpecCookies == CookiesInit /\ [][CookiesNext]_vars

\* new Date() has moved on by a millisecond.
Millisecond ==
    /\ ticks < MaxTicks
    /\ now' = now + 1
    /\ ticks' = ticks + 1
    /\ UNCHANGED <<cachedAccessToken, config, tpc, tret, tokenRequests, gatewayVars, apiVars>>

\* Saves of two VIP users on a running clock: two days of one, one day of the other.
UpsertCalls ==
    {<<[kind |-> "ok", userId |-> c[1]],
       [date |-> JStr(<<c[2]>>), entries |-> JUndef, analysis |-> a]>> :
        c \in {<<2, "1">>, <<2, "2">>, <<3, "1">>}, a \in {JUndef, JStr(<<"a">>)}}

UpsertInit ==
    /\ cachedAccessToken = <<>>
    /\ now = 0
    /\ ticks = 0
    /\ config = [appId |-> "wx-app", secret |-> "wx-secret"]
    /\ tpc = [c \in Callers |-> "idle"]
    /\ tret = [c \in Callers |-> NoReturn]
    /\ tokenRequests = 0
    /\ GatewayIdle
    /\ users = Append(InitialUsers, [id |-> 3, wx_open_id |-> "o3", phone |-> "", vip_level |-> "vip"])
    /\ cookies = <<>>
    /\ jwtSecret = "jwt-secret"
    /\ ApiIdle

UpsertNext ==
    \/ \E call \in UpsertCalls : CookiesPost(call[1], call[2])
    \/ Millisecond
    \/ ApiNextRequest

SpecUpsert == UpsertInit /\ [][UpsertNext]_vars

(***************************************************************************)
(* Claim about the emotion cookies, checked under SpecCookies.             *)
(***************************************************************************)
\* A step that serves one emotion-cookies request from start to response.
CookieRequestServed ==
    apc = "idle" /\ apc' = "done" /\ aroute' \in {"cookies-post", "cookies-get"}
\* The token was verified and names a user that has a row.
TokenResolves(auth) == jwtSecret # "" /\ auth.kind = "ok" /\ auth.userId \in 1..Len(users)
\* Nothing was read from or written to emotion_cookies.
TableUntouched == cookies' = cookies /\ aops' = <<>>

\* C20 (as claimed): in every sequence of POST and GET /api/emotion-cookies
\* requests, a request of an authenticated user whose vip_level is not 'vip' is
\* answered 403 without inserting, updating or reading any emotion_cookies row,
\* and a request with no resolvable user is answered 401 with the table unchanged.
C20_VipOnlyAsClaimed ==
    [][CookieRequestServed =>
         /\ (TokenResolves(areq'.auth) /\ users[areq'.auth.userId].vip_level # "vip")
              => (ares'.status = 403 /\ TableUntouched)
         /\ ~TokenResolves(areq'.auth) => (ares'.status = 401 /\ TableUntouched)]_vars

\* C20 (amended): the same, except that a request carrying a bearer token while
\* the server has no JWT secret configured is answered 500, not 401; the table
\* is untouched all the same.
C20_VipOnly ==
    [][CookieRequestServed =>
         /\ (TokenResolves(areq'.auth) /\ users[areq'.auth.userId].vip_level # "vip")
              => (ares'.status = 403 /\ TableUntouched)
         /\ ~TokenResolves(areq'.auth)
              => (/\ ares'.status = IF areq'.auth.kind # "none" /\ jwtSecret = "" THEN 500 ELSE 401
                  /\ TableUntouched)]_vars

\* A free user was refused while the table held rows of a VIP user.
C20_Witness ==
    /\ apc = "done"
    /\ aroute = "cookies-post"
    /\ areq.auth = [kind |-> "ok", userId |-> 1]
    /\ ~DateMissing(areq.body.date)
    /\ ares.status = 403
    /\ cookies # <<>>

(***************************************************************************)
(* Claims about section headers and the long-term fallback, checked under  *)
(* SpecGateway.                                                            *)
(***************************************************************************)
FilledBodies == {b \in SectionBodies : ~BlankText(b)}

\* C21 (as claimed): a diary model text without any brace that has a diary
\* heading, a key-points heading and an insights heading, each followed by a
\* colon, is decomposed: diary is the text between the diary heading and the
\* next heading, keyPoints the text between the key-points heading and the
\* next heading, insights the text from the insights heading to the end.
C21_SectionsWithoutBrace ==
    \A d \in FilledBodies, k \in FilledBodies, i \in FilledBodies :
        (DiaryDone /\ graw = HeadedText(d, k, i))
        => gres.data = DiaryRecord(JStr(Trim(d)), JStr(Trim(k)), JStr(Trim(i)))

\* The long-term model text holds no object that JSON.parse accepts.
RawHasNoObject == ~HasJsonSpan(graw) \/ ~JsonParse(JsonSpan(graw)).ok
IsPrefixUpTo(p, s, n) == Len(p) <= n /\ Len(p) <= Len(s) /\ p = SubSeq(s, 1, Len(p))
\* A text field or list of texts that holds nothing, or only a prefix of the
\* model text of at most SliceLen characters.
DefaultOrPrefix(x) ==
    \/ x.t = "str" /\ IsPrefixUpTo(x.v, graw, SliceLen)
    \/ x.t = "arr" /\ \A n \in 1..Len(x.v) :
                          x.v[n].t = "str" /\ IsPrefixUpTo(x.v[n].v, graw, SliceLen)

\* C22 (as claimed): when the long-term model text has no parseable JSON
\* object, the returned record carries of the raw text only a prefix of at most
\* 200 characters, in its text fields keyPoints and letter, and the other
\* fields are structural defaults: themes and adviceBlocks empty, metrics empty.
C22_TruncatedSyntheticRecord ==
    (LongTermDone /\ RawHasNoObject)
    => /\ DefaultOrPrefix(Get(Field(KeySummary), KeyKeyPoints))
       /\ DefaultOrPrefix(Get(Field(KeyInsight), <<"letter">>))
       /\ Get(Field(KeyInsight), <<"themes">>) = JArr(<<>>)
       /\ Get(Field(KeyAdvice), <<"adviceBlocks">>) = JArr(<<>>)
       /\ Field(KeyMetrics) = JObj(<<>>)

(***************************************************************************)
(* Claim about the responses of all handlers, checked under SpecRequests.  *)
(***************************************************************************)
\* C23 (as claimed): every handler that has run to its end has sent its one
\* response, on every path: the six gateway tasks, and login, phone binding and
\* the emotion-cookies routes.
C23_OneResponsePerRequest ==
    /\ (gpc = "done" => gres # NoResponse)
    /\ (apc = "done" => ares # NoResponse)

(***************************************************************************)
(* Claim about the steps of a goal, checked under SpecGoals.               *)
(***************************************************************************)
\* C24 (as claimed): no step of a successful goal decomposition is the empty
\* string, whatever the model text; a line of enumeration characters only,
\* such as "1." or "---", produces no empty step.
C24_NoEmptyStep ==
    GoalsDone => \A n \in 1..Len(StepsOut) : StepsOut[n] # JStr(<<>>)

(***************************************************************************)
(* Claim about the emotion_cookies table, checked under SpecUpsert.        *)
(***************************************************************************)
\* The step is a save that went through to upsertEmotionDay.
SavedDay == apc = "idle" /\ aroute' = "cookies-post" /\ ares'.status = 200
SavedUser == areq'.auth.userId
SavedDate == areq'.body.date.v
LiveRows(table, userId, date) ==
    {i \in 1..Len(table) :
        table[i].user_id = userId /\ table[i].date = date /\ table[i].is_deleted = 0}
OneRowPerDay(table) ==
    \A i, j \in 1..Len(table) :
        (/\ table[i].user_id = table[j].user_id
         /\ table[i].date = table[j].date
         /\ table[i].is_deleted = 0
         /\ table[j].is_deleted = 0) => i = j

\* C25: the table holds at most one non-deleted row per (user_id, date); the
\* first upsert of a pair inserts a row, every later upsert of the pair updates
\* that row's data and updated_at in place, keeping its id and created_at, and
\* the rows of the other pairs stay as they are.
C25_OneRowPerUserAndDate ==
    [][SavedDay =>
        /\ OneRowPerDay(cookies')
        /\ \A i \in 1..Len(cookies) :
              ~(cookies[i].user_id = SavedUser /\ cookies[i].date = SavedDate)
              => cookies'[i] = cookies[i]
        /\ IF LiveRows(cookies, SavedUser, SavedDate) = {}
           THEN /\ Len(cookies') = Len(cookies) + 1
                /\ LiveRows(cookies', SavedUser, SavedDate) = {Len(cookies')}
                /\ cookies'[Len(cookies')].id \notin {cookies[i].id : i \in 1..Len(cookies)}
                /\ cookies'[Len(cookies')].created_at = now
                /\ cookies'[Len(cookies')].updated_at = now
           ELSE /\ Len(cookies') = Len(cookies)
                /\ \A i \in LiveRows(cookies, SavedUser, SavedDate) :
                      /\ cookies'[i].id = cookies[i].id
                      /\ cookies'[i].created_at = cookies[i].created_at
                      /\ cookies'[i].updated_at = now
                      /\ JsonParse(cookies'[i].data).val
                            = JObj(Defined(<<[k |-> KeyAnalysis, v |-> areq'.body.analysis]>>))
                      /\ [cookies'[i] EXCEPT !.data = "", !.updated_at = 0]
                            = [cookies[i] EXCEPT !.data = "", !.updated_at = 0]
    ]_vars

\* A day saved a second time, later and with other data, next to another day's row.
C25_Witness ==
    /\ apc = "done" /\ aroute = "cookies-post" /\ ares.status = 200
    /\ Len(cookies) = 2
    /\ cookies[1].user_id = areq.auth.userId /\ cookies[1].date = areq.body.date.v
    /\ cookies[1].updated_at > cookies[1].created_at
    /\ cookies[2].created_at < cookies[1].updated_at
    /\ JsonParse(cookies[1].data).val = JObj(<<[k |-> KeyAnalysis, v |-> JStr(<<"a">>)]>>)

(***************************************************************************)
(* Claim about the phone binding, checked under SpecAuth.                  *)
(***************************************************************************)
\* The step sends the phone-number call; the step changes some stored phone.
PhoneCallSent == apc # "phone" /\ apc' = "phone"
PhoneStored ==
    \E i \in 1..Len(users) : i <= Len(users') /\ users'[i].phone # users[i].phone
LastOutcome == aout'[Len(aout')]
\* The step is getAccessToken failing: it throws for want of configuration, or its
\* request is rejected or answered with an errcode or without a token.
TokenFailed ==
    \/ /\ apc = "idle" /\ aroute' = "phone"
       /\ AuthFailure(areq'.auth) = NoResponse /\ ~CodeMissing(areq'.body.code)
       /\ ~IsFresh(cachedAccessToken, now) /\ ConfigMissing(config)
    \/ /\ apc = "token" /\ apc' # "token"
       /\ (LastOutcome.kind # "ok" \/ LastOutcome.data.errcode # <<>>
           \/ LastOutcome.data.access_token = <<>>)
\* The step is the phone-number call failing, or succeeding.
PhoneFailed ==
    /\ apc = "phone" /\ apc' # "phone"
    /\ (LastOutcome.kind # "ok" \/ LastOutcome.errcode # 0 \/ LastOutcome.phone = "")
PhoneSucceeded ==
    /\ apc = "phone" /\ apc' # "phone"
    /\ LastOutcome.kind = "ok" /\ LastOutcome.errcode = 0 /\ LastOutcome.phone # ""

\* C26: the phone-number endpoint is called only with a token getAccessToken has
\* returned; when getAccessToken or the phone-number call fails the stored phone
\* stays as it is and the request is answered with an error; a stored phone
\* changes only on a successful phone-number response, to the number it carries
\* and for the caller only; a failed phone-number call leaves the credential
\* cache as it is.
C26_PhoneBindingOrdered ==
    [][/\ PhoneCallSent =>
            /\ cachedAccessToken' # <<>>
            /\ aops' = <<"getuserphonenumber", cachedAccessToken'[1].token>>
            /\ cachedAccessToken'[1].token # ""
            /\ \/ apc = "idle" /\ IsFresh(cachedAccessToken, now)
                  /\ cachedAccessToken' = cachedAccessToken
               \/ apc = "token" /\ LastOutcome.kind = "ok"
                  /\ LastOutcome.data.access_token = <<cachedAccessToken'[1].token>>
       /\ (aops' # aops /\ aroute' = "phone") => PhoneCallSent
       /\ (TokenFailed \/ PhoneFailed) =>
            /\ users' = users
            /\ apc' = "done" /\ ares'.status >= 400
            /\ aops' = aops
       /\ PhoneFailed => cachedAccessToken' = cachedAccessToken
       /\ PhoneStored =>
            /\ PhoneSucceeded
            /\ users' = [users EXCEPT ![areq.auth.userId].phone = LastOutcome.phone]
            /\ ares'.status = 200
    ]_vars

\* A binding that had to fetch the token first and then stored the number.
C26_Witness ==
    /\ apc = "done" /\ aroute = "phone" /\ ares.status = 200
    /\ Len(aout) = 2
    /\ aops = <<"getuserphonenumber", "tokB">>
    /\ users[areq.auth.userId].phone = "p1"
====
